---- MODULE Spec2Model ----
(***************************************************************************)
(* State-driven orchestration engine (system/orchestrator_dynamic.py):     *)
(* phase inference, the decision engine, the implementation permission     *)
(* callback and the orchestration loop with its collaborator clients; the  *)
(* consensus test of the dialogue drivers (agents/run_dialogue.py,         *)
(* orchestrator_stateful.py).                                              *)
(***************************************************************************)
EXTENDS Naturals, Integers, Sequences, FiniteSets, TLC

VARIABLES
    \* --- phase inference / decision engine on an arbitrary ProjectState ---
    pstate,         \* a ProjectState record (all combinations of facts)
    pphase,         \* result of _infer_phase(pstate), "unset" before the call
    paction,        \* result of decide_next_action(pstate), NoAction before
    \* --- implementation permission callback ---
    perm_ws,        \* str(state.workspace_path), a sequence of path tokens
    perm_log,       \* sequence of [tool, file_path, result] already decided
    \* --- the project workspace on disk ---
    fs,             \* the file tree under workspace_root / project_name
    assessed,       \* value returned by the last assess_project_state call
    \* --- one DynamicOrchestrator instance and its orchestrate() calls ---
    clients,        \* self.<role>_client: "None", "connected", "disconnected"
    action_history, \* self.action_history
    current_state,  \* self.current_state (NotAssessed for None)
    pc,             \* position of orchestrate: idle, loop, summary, cleanup, done
    iteration,      \* iterations of the for loop begun in this call
    max_iterations, \* the max_iterations argument of this call
    exc,            \* exception propagating out of the loop body, or "none"
    run,            \* what this orchestrate() call has done so far
    \* --- one architect / coder dialogue, run by each of its three drivers ---
    dlg,            \* the four responses and the consensus each driver found
    \* --- one call of an orchestrator tool that spawns an agent script ---
    tcall,          \* the tool called, its subprocess and what it returned
    \* --- one call of the HTTP workflow (orchestration.py) ---
    api,            \* its position, the requests made and what it returned
    \* --- the tool-level assessor (orchestrator_tools.py) ---
    tstate          \* value returned by the last assess_workspace_state call

phase_vars == <<pstate, pphase, paction>>
perm_vars  == <<perm_ws, perm_log>>
fs_vars    == <<fs, assessed>>
orch_vars  == <<clients, action_history, current_state, pc, iteration,
               max_iterations, exc, run>>
vars       == <<phase_vars, perm_vars, fs_vars, orch_vars, dlg, tcall,
               api, tstate>>

(***************************************************************************)
(* Enumerations                                                            *)
(***************************************************************************)
ProjectPhase ==
    {"UNINITIALIZED", "ARCHITECTURAL_DIALOGUE", "DOCUMENTATION_SYNTHESIS",
     "IMPLEMENTATION", "AUDIT", "COMPLETE", "FAILED"}

ActionType ==
    {"RUN_DIALOGUE", "SYNTHESIZE_DOCS", "IMPLEMENT_CODE", "RUN_AUDIT",
     "UPDATE_DOCS", "ASK_HUMAN", "COMPLETE", "ABORT"}

\* Optional[bool]: Python's None / True / False
OptBool == {"None", "True", "False"}

PyBool(b) == IF b THEN "True" ELSE "False"

\* The dataclass fields that vary; workspace_path and project_name are fixed
\* for one project, implementation_success / last_error / human_feedback are
\* never assigned by the orchestrator.
ProjectState ==
    [has_requirements: BOOLEAN, has_conversation: BOOLEAN,
     has_architecture_doc: BOOLEAN, has_constraints_doc: BOOLEAN,
     has_code: BOOLEAN, has_implementation_log: BOOLEAN,
     has_audit_log: BOOLEAN, current_phase: ProjectPhase,
     dialogue_consensus: BOOLEAN, audit_passed: OptBool]

\* ProjectState(workspace_path, project_name): the dataclass defaults
DefaultState ==
    [has_requirements |-> FALSE, has_conversation |-> FALSE,
     has_architecture_doc |-> FALSE, has_constraints_doc |-> FALSE,
     has_code |-> FALSE, has_implementation_log |-> FALSE,
     has_audit_log |-> FALSE, current_phase |-> "UNINITIALIZED",
     dialogue_consensus |-> FALSE, audit_passed |-> "None"]

(***************************************************************************)
(* DynamicOrchestrator._infer_phase                                        *)
(***************************************************************************)
\* A faulty variant that tests for code before it tests for documentation.
_infer_phase_code_first(state) ==
    IF ~state.has_requirements THEN "UNINITIALIZED"
    ELSE IF ~state.has_conversation \/ ~state.dialogue_consensus
        THEN "ARCHITECTURAL_DIALOGUE"
    ELSE IF ~state.has_code THEN "IMPLEMENTATION"
    ELSE IF ~state.has_architecture_doc \/ ~state.has_constraints_doc
        THEN "DOCUMENTATION_SYNTHESIS"
    ELSE IF state.has_code /\ ~state.has_audit_log THEN "AUDIT"
    ELSE IF state.audit_passed = "False" THEN "FAILED"
    ELSE IF state.audit_passed = "True" THEN "COMPLETE"
    ELSE "UNINITIALIZED"

\* A faulty variant that does not wait for the two documents.
_infer_phase_docs_optional(state) ==
    IF ~state.has_requirements THEN "UNINITIALIZED"
    ELSE IF ~state.has_conversation \/ ~state.dialogue_consensus
        THEN "ARCHITECTURAL_DIALOGUE"
    ELSE IF ~state.has_code THEN "IMPLEMENTATION"
    ELSE IF state.has_code /\ ~state.has_audit_log THEN "AUDIT"
    ELSE IF state.audit_passed = "False" THEN "FAILED"
    ELSE IF state.audit_passed = "True" THEN "COMPLETE"
    ELSE "UNINITIALIZED"

\* A faulty variant that looks at the audit result before the stages.
_infer_phase_audit_first(state) ==
    IF ~state.has_requirements THEN "UNINITIALIZED"
    ELSE IF state.audit_passed = "False" THEN "FAILED"
    ELSE IF state.audit_passed = "True" THEN "COMPLETE"
    ELSE IF ~state.has_conversation \/ ~state.dialogue_consensus
        THEN "ARCHITECTURAL_DIALOGUE"
    ELSE IF ~state.has_architecture_doc \/ ~state.has_constraints_doc
        THEN "DOCUMENTATION_SYNTHESIS"
    ELSE IF ~state.has_code THEN "IMPLEMENTATION"
    ELSE IF state.has_code /\ ~state.has_audit_log THEN "AUDIT"
    ELSE "UNINITIALIZED"

_infer_phase(state) ==
    IF ~state.has_requirements THEN "UNINITIALIZED"
    ELSE IF ~state.has_conversation \/ ~state.dialogue_consensus
        THEN "ARCHITECTURAL_DIALOGUE"
    ELSE IF ~state.has_architecture_doc \/ ~state.has_constraints_doc
        THEN "DOCUMENTATION_SYNTHESIS"
    ELSE IF ~state.has_code THEN "IMPLEMENTATION"
    ELSE IF state.has_code /\ ~state.has_audit_log THEN "AUDIT"
    ELSE IF state.audit_passed = "False" THEN "FAILED"
    ELSE IF state.audit_passed = "True" THEN "COMPLETE"
    ELSE "UNINITIALIZED"

(***************************************************************************)
(* DynamicOrchestrator.decide_next_action                                  *)
(***************************************************************************)
\* OrchestratorAction(action_type, reason, inputs).  reason is a sequence of
\* strings: the literal text, followed for the f-string of the fallback by
\* the fields ProjectState.__repr__ prints.  inputs is the set of keys of the
\* inputs dict (empty for inputs=None) and the "options" list.
OrchestratorAction(action_type, reason, keys, options) ==
    [action_type |-> action_type, reason |-> reason,
     inputs |-> [keys |-> keys, options |-> options]]

NoAction == OrchestratorAction("none", <<>>, {}, <<>>)

\* ProjectState.__repr__
StateRepr(state) ==
    <<state.current_phase,
      PyBool(state.has_architecture_doc /\ state.has_constraints_doc),
      PyBool(state.has_code), state.audit_passed>>

\* A faulty variant that leaves out the third option.
AuditFailedOptions_two == <<"fix_implementation", "revise_architecture">>

AuditFailedOptions ==
    <<"fix_implementation", "revise_architecture", "accept_violations">>

\* A faulty variant whose FAILED branch aborts instead of asking the operator.
decide_next_action_abort(state) ==
    IF state.current_phase = "UNINITIALIZED" /\ ~state.has_requirements
    THEN OrchestratorAction("ASK_HUMAN",
            <<"No requirements found. Need project description to start.">>,
            {"need"}, <<>>)
    ELSE IF state.current_phase = "ARCHITECTURAL_DIALOGUE"
            /\ ~state.has_conversation
    THEN OrchestratorAction("RUN_DIALOGUE",
            <<"No conversation exists. Starting Architect <-> Coder dialogue.">>,
            {"requirements_path"}, <<>>)
    ELSE IF state.current_phase = "ARCHITECTURAL_DIALOGUE"
            /\ state.has_conversation /\ ~state.dialogue_consensus
    THEN OrchestratorAction("RUN_DIALOGUE",
            <<"Conversation exists but no consensus reached. Continuing dialogue.">>,
            {"resume"}, <<>>)
    ELSE IF state.current_phase = "DOCUMENTATION_SYNTHESIS"
    THEN OrchestratorAction("SYNTHESIZE_DOCS",
            <<"Dialogue consensus reached. Synthesizing architecture documentation.">>,
            {"conversation_path", "output_path"}, <<>>)
    ELSE IF state.current_phase = "IMPLEMENTATION"
    THEN OrchestratorAction("IMPLEMENT_CODE",
            <<"Architecture documented. Starting implementation.">>,
            {"architecture_path", "output_path"}, <<>>)
    ELSE IF state.current_phase = "AUDIT"
    THEN OrchestratorAction("RUN_AUDIT",
            <<"Implementation complete. Running constraint validation.">>,
            {"constraints_path", "code_path", "output_path"}, <<>>)
    ELSE IF state.current_phase = "FAILED" /\ state.audit_passed = "False"
    THEN OrchestratorAction("ABORT",
            <<"Audit failed. Review violations and decide: fix implementation or revise architecture?">>,
            {"audit_log", "options"}, AuditFailedOptions)
    ELSE IF state.current_phase = "COMPLETE"
    THEN OrchestratorAction("COMPLETE",
            <<"Project complete: docs generated, code implemented, audit passed.">>,
            {}, <<>>)
    ELSE OrchestratorAction("ASK_HUMAN",
            <<"Unknown state: ">> \o StateRepr(state)
                \o <<". Human intervention required.">>,
            {}, <<>>)

\* A faulty variant whose first case does not test has_requirements.
decide_next_action_default_asks(state) ==
    \* Case 1: New project, no requirements
    IF state.current_phase = "UNINITIALIZED"
    THEN OrchestratorAction("ASK_HUMAN",
            <<"No requirements found. Need project description to start.">>,
            {"need"}, <<>>)
    \* Case 2: Have requirements, need architectural dialogue
    ELSE IF state.current_phase = "ARCHITECTURAL_DIALOGUE"
            /\ ~state.has_conversation
    THEN OrchestratorAction("RUN_DIALOGUE",
            <<"No conversation exists. Starting Architect <-> Coder dialogue.">>,
            {"requirements_path"}, <<>>)
    ELSE IF state.current_phase = "ARCHITECTURAL_DIALOGUE"
            /\ state.has_conversation /\ ~state.dialogue_consensus
    THEN OrchestratorAction("RUN_DIALOGUE",
            <<"Conversation exists but no consensus reached. Continuing dialogue.">>,
            {"resume"}, <<>>)
    \* Case 3: Have consensus, need documentation
    ELSE IF state.current_phase = "DOCUMENTATION_SYNTHESIS"
    THEN OrchestratorAction("SYNTHESIZE_DOCS",
            <<"Dialogue consensus reached. Synthesizing architecture documentation.">>,
            {"conversation_path", "output_path"}, <<>>)
    \* Case 4: Have docs, need implementation
    ELSE IF state.current_phase = "IMPLEMENTATION"
    THEN OrchestratorAction("IMPLEMENT_CODE",
            <<"Architecture documented. Starting implementation.">>,
            {"architecture_path", "output_path"}, <<>>)
    \* Case 5: Have code, need audit
    ELSE IF state.current_phase = "AUDIT"
    THEN OrchestratorAction("RUN_AUDIT",
            <<"Implementation complete. Running constraint validation.">>,
            {"constraints_path", "code_path", "output_path"}, <<>>)
    \* Case 6: Audit failed - feedback loop
    ELSE IF state.current_phase = "FAILED" /\ state.audit_passed = "False"
    THEN OrchestratorAction("ASK_HUMAN",
            <<"Audit failed. Review violations and decide: fix implementation or revise architecture?">>,
            {"audit_log", "options"}, AuditFailedOptions)
    \* Case 7: Complete
    ELSE IF state.current_phase = "COMPLETE"
    THEN OrchestratorAction("COMPLETE",
            <<"Project complete: docs generated, code implemented, audit passed.">>,
            {}, <<>>)
    \* Fallback: shouldn't reach here
    ELSE OrchestratorAction("ASK_HUMAN",
            <<"Unknown state: ">> \o StateRepr(state)
                \o <<". Human intervention required.">>,
            {}, <<>>)

decide_next_action(state) ==
    \* Case 1: New project, no requirements
    IF state.current_phase = "UNINITIALIZED" /\ ~state.has_requirements
    THEN OrchestratorAction("ASK_HUMAN",
            <<"No requirements found. Need project description to start.">>,
            {"need"}, <<>>)
    \* Case 2: Have requirements, need architectural dialogue
    ELSE IF state.current_phase = "ARCHITECTURAL_DIALOGUE"
            /\ ~state.has_conversation
    THEN OrchestratorAction("RUN_DIALOGUE",
            <<"No conversation exists. Starting Architect <-> Coder dialogue.">>,
            {"requirements_path"}, <<>>)
    ELSE IF state.current_phase = "ARCHITECTURAL_DIALOGUE"
            /\ state.has_conversation /\ ~state.dialogue_consensus
    THEN OrchestratorAction("RUN_DIALOGUE",
            <<"Conversation exists but no consensus reached. Continuing dialogue.">>,
            {"resume"}, <<>>)
    \* Case 3: Have consensus, need documentation
    ELSE IF state.current_phase = "DOCUMENTATION_SYNTHESIS"
    THEN OrchestratorAction("SYNTHESIZE_DOCS",
            <<"Dialogue consensus reached. Synthesizing architecture documentation.">>,
            {"conversation_path", "output_path"}, <<>>)
    \* Case 4: Have docs, need implementation
    ELSE IF state.current_phase = "IMPLEMENTATION"
    THEN OrchestratorAction("IMPLEMENT_CODE",
            <<"Architecture documented. Starting implementation.">>,
            {"architecture_path", "output_path"}, <<>>)
    \* Case 5: Have code, need audit
    ELSE IF state.current_phase = "AUDIT"
    THEN OrchestratorAction("RUN_AUDIT",
            <<"Implementation complete. Running constraint validation.">>,
            {"constraints_path", "code_path", "output_path"}, <<>>)
    \* Case 6: Audit failed - feedback loop
    ELSE IF state.current_phase = "FAILED" /\ state.audit_passed = "False"
    THEN OrchestratorAction("ASK_HUMAN",
            <<"Audit failed. Review violations and decide: fix implementation or revise architecture?">>,
            {"audit_log", "options"}, AuditFailedOptions)
    \* Case 7: Complete
    ELSE IF state.current_phase = "COMPLETE"
    THEN OrchestratorAction("COMPLETE",
            <<"Project complete: docs generated, code implemented, audit passed.">>,
            {}, <<>>)
    \* Fallback: shouldn't reach here
    ELSE OrchestratorAction("ASK_HUMAN",
            <<"Unknown state: ">> \o StateRepr(state)
                \o <<". Human intervention required.">>,
            {}, <<>>)

(***************************************************************************)
(* The workspace file tree, as far as assess_project_state and the action  *)
(* executor read or write it.                                              *)
(*   dirs          the directories that exist, among the workspace itself  *)
(*                 and its conversation/ architecture/ code/ logs/         *)
(*   requirements  requirements.md exists                                  *)
(*   conversation  conversation/*.md in glob order; each transcript has    *)
(*                 the timestamp of its name, its modification time, the   *)
(*                 marker literals its text contains and the YES/NO of its *)
(*                 "**Consensus:**" header line                            *)
(*   architecture_doc, constraints_doc   the two synthesized documents     *)
(*   code_files    extensions of the files somewhere under code/           *)
(*   implementation_log   logs/IMPLEMENTATION_LOG.md exists                *)
(*   impl_logs     number of logs/implementation_<timestamp>.md files      *)
(*   audit_logs    logs/AUDIT_LOG_*.md in glob order: modification time    *)
(*                 and the marker literals contained                       *)
(*   orch_logs     number of logs/orchestration_<timestamp>.log files      *)
(***************************************************************************)
MaxMtime == 1
MaxFiles == 2

ConsensusMarkers == {"CONSENSUS", "AGREED"}
AuditMarkers == {"PASS", "FAIL"}
CodeExts == {"tsx", "html"}
SubDirs == {"conversation", "architecture", "code", "logs"}

AuditLog == [mtime: 0..MaxMtime, markers: SUBSET AuditMarkers]

NoWorkspace ==
    [dirs |-> {}, requirements |-> FALSE, conversation |-> <<>>,
     architecture_doc |-> FALSE, constraints_doc |-> FALSE,
     code_files |-> {}, implementation_log |-> FALSE, impl_logs |-> 0,
     audit_logs |-> <<>>, orch_logs |-> 0]

SeqsUpTo(S, n) == UNION {[1..k -> S] : k \in 0..n}

\* a file exists only inside an existing directory; names are unique
WellFormedTree(t) ==
    /\ t.dirs # {} => "workspace" \in t.dirs
    /\ t.requirements => "workspace" \in t.dirs
    /\ t.conversation # <<>> => "conversation" \in t.dirs
    /\ (t.architecture_doc \/ t.constraints_doc) => "architecture" \in t.dirs
    /\ t.code_files # {} => "code" \in t.dirs
    /\ (t.implementation_log \/ t.impl_logs > 0 \/ t.audit_logs # <<>>
          \/ t.orch_logs > 0) => "logs" \in t.dirs
    /\ \A i, j \in 1..Len(t.conversation) :
          t.conversation[i].name = t.conversation[j].name => i = j

\* A faulty variant that takes the least recently modified file.
LatestByMtime_oldest(files) ==
    files[CHOOSE i \in 1..Len(files) :
            /\ \A j \in 1..Len(files) : files[j].mtime >= files[i].mtime
            /\ \A j \in 1..(i - 1) : files[j].mtime > files[i].mtime]

\* max(files, key=lambda p: p.stat().st_mtime): the first file, in glob
\* order, among those with the greatest modification time
LatestByMtime(files) ==
    files[CHOOSE i \in 1..Len(files) :
            /\ \A j \in 1..Len(files) : files[j].mtime <= files[i].mtime
            /\ \A j \in 1..(i - 1) : files[j].mtime < files[i].mtime]

\* the extensions matched by the four code_dir.glob("**/*.<ext>") patterns
CodeGlobExts == {"py", "js", "ts", "tsx"}

(***************************************************************************)
(* DynamicOrchestrator.assess_project_state                                *)
(***************************************************************************)
\* the facts read from the tree, before the phase is inferred
AssessFacts(t) ==
    [DefaultState EXCEPT
        !.has_requirements = t.requirements,
        !.has_conversation =
            "conversation" \in t.dirs /\ Len(t.conversation) > 0,
        !.dialogue_consensus =
            /\ "conversation" \in t.dirs /\ Len(t.conversation) > 0
            /\ "CONSENSUS" \in LatestByMtime(t.conversation).markers
            /\ "AGREED" \in LatestByMtime(t.conversation).markers,
        !.has_architecture_doc =
            "architecture" \in t.dirs /\ t.architecture_doc,
        !.has_constraints_doc =
            "architecture" \in t.dirs /\ t.constraints_doc,
        !.has_code =
            "code" \in t.dirs /\ (t.code_files \cap CodeGlobExts) # {},
        !.has_implementation_log =
            "logs" \in t.dirs /\ t.implementation_log,
        !.has_audit_log = "logs" \in t.dirs /\ Len(t.audit_logs) > 0,
        !.audit_passed =
            IF "logs" \in t.dirs /\ Len(t.audit_logs) > 0
            THEN PyBool("PASS" \in LatestByMtime(t.audit_logs).markers
                        /\ "FAIL" \notin LatestByMtime(t.audit_logs).markers)
            ELSE "None"]

\* A faulty variant that leaves audit_passed unset unless a marker is found.
assess_project_state_lazy_audit(t) ==
    IF "workspace" \notin t.dirs THEN DefaultState
    ELSE LET facts == AssessFacts(t)
             unmarked == /\ facts.has_audit_log
                         /\ LatestByMtime(t.audit_logs).markers = {}
             f2 == IF unmarked THEN [facts EXCEPT !.audit_passed = "None"]
                   ELSE facts
         IN  [f2 EXCEPT !.current_phase = _infer_phase(f2)]

assess_project_state(t) ==
    \* Check if workspace exists
    IF "workspace" \notin t.dirs THEN DefaultState
    ELSE LET facts == AssessFacts(t)
         IN  [facts EXCEPT !.current_phase = _infer_phase(facts)]

(***************************************************************************)
(* DynamicOrchestrator.__init__                                            *)
(***************************************************************************)
Roles == {"architect", "coder", "docs", "audit"}

NotAssessed == [DefaultState EXCEPT !.current_phase = "unset"]

NoRun ==
    [number |-> 0, phases |-> <<>>, connected |-> {}, disconnected |-> {},
     impl_connects |-> 0, impl_disconnects |-> 0, faults |-> FALSE,
     summary |-> FALSE, max_reached |-> FALSE, outcome |-> "none",
     only_requirements |-> FALSE, cleanup_raised |-> {},
     created |-> [r \in Roles |-> <<>>]]

\* no dialogue has been run by a direct call
\* a tool result: the keys its callers read ("error" is absent on success)
NoResult == [success |-> FALSE, error |-> "absent"]

\* no orchestrator tool has been called
NoToolCall ==
    [name |-> "none", step |-> "idle", spawns |-> 0, outcome |-> "none",
     parsed |-> FALSE, raised |-> "none", result |-> NoResult]

\* the dict assess_workspace_state starts from (project_name,
\* workspace_path and files take no part in the phase)
DefaultToolState ==
    [has_requirements |-> FALSE, has_conversation |-> FALSE,
     has_architecture |-> FALSE, has_constraints |-> FALSE,
     has_code |-> FALSE, has_implementation_log |-> FALSE,
     has_audit_log |-> FALSE, current_phase |-> "uninitialized",
     conversation_consensus |-> FALSE]

\* assess_workspace_state has not been called
ToolNotAssessed == [DefaultToolState EXCEPT !.current_phase = "unset"]

\* what a function of orchestration.py returns: whether the keys "success"
\* and "error" are set, and the values of success and consensus_reached
NoApiResult ==
    [returned |-> FALSE, has_success |-> FALSE, success |-> FALSE,
     has_error |-> FALSE, consensus_reached |-> FALSE]

\* no function of orchestration.py has been called
NoApiCall ==
    [entry |-> "none", step |-> "idle", requests |-> <<>>,
     conversation |-> <<>>, saved |-> <<>>, dialogue |-> NoApiResult,
     documentation |-> NoApiResult, phases_completed |-> <<>>,
     results |-> NoApiResult]

NoDialogue ==
    [turns |-> <<{}, {}, {}, {}>>, dynamic |-> "None", standalone |-> "None",
     stateful |-> "None", now |-> 0, dialogues |-> 0, step |-> "idle",
     calls |-> <<>>]

OrchestratorInit ==
    /\ clients = [r \in Roles |-> "None"]
    /\ action_history = <<>>
    /\ current_state = NotAssessed
    /\ pc = "idle"
    /\ iteration = 0
    /\ max_iterations = 0
    /\ exc = "none"
    /\ run = NoRun

(***************************************************************************)
(* Specification of the assessor as a function of the tree: any well-      *)
(* formed workspace, assessed by a direct call.                            *)
(***************************************************************************)
\* Bounded enumeration: at most MaxFiles timestamped files in all, the k-th
\* transcript named by timestamp k - 1, a header that agrees with the text,
\* and either only the directories the files need or all of them.
TranscriptTexts ==
    {t \in [mtime: 0..MaxMtime, markers: SUBSET ConsensusMarkers] : TRUE}

NamedTranscripts(texts) ==
    [i \in 1..Len(texts) |->
        [name |-> i - 1, mtime |-> texts[i].mtime,
         markers |-> texts[i].markers,
         header |-> IF texts[i].markers = ConsensusMarkers
                    THEN "YES" ELSE "NO"]]

NeededDirs(t) ==
    (IF t.requirements THEN {"workspace"} ELSE {})
    \cup (IF t.conversation # <<>> THEN {"workspace", "conversation"} ELSE {})
    \cup (IF t.architecture_doc \/ t.constraints_doc
          THEN {"workspace", "architecture"} ELSE {})
    \cup (IF t.code_files # {} THEN {"workspace", "code"} ELSE {})
    \cup (IF t.implementation_log \/ t.impl_logs > 0 \/ t.audit_logs # <<>>
             \/ t.orch_logs > 0
          THEN {"workspace", "logs"} ELSE {})

\* a tree with the given files, in the directories they need or in all
Tree(alldirs, req, conv, arch, cons, code, impl_log, audits) ==
    LET t == [NoWorkspace EXCEPT
                !.requirements = req, !.conversation = conv,
                !.architecture_doc = arch, !.constraints_doc = cons,
                !.code_files = code, !.implementation_log = impl_log,
                !.audit_logs = audits]
    IN  [t EXCEPT !.dirs = IF alldirs THEN {"workspace"} \cup SubDirs
                           ELSE NeededDirs(t)]

\* the transcripts and audit logs of a tree: at most n files in all
TimestampedFiles(n) ==
    UNION {[conversation: [1..k -> TranscriptTexts],
            audit_logs: SeqsUpTo(AuditLog, n - k)] : k \in 0..n}

InitAssess ==
    /\ \E alldirs, req, arch, cons, impl_log \in BOOLEAN,
          code \in SUBSET CodeExts, f \in TimestampedFiles(MaxFiles) :
          fs = Tree(alldirs, req, NamedTranscripts(f.conversation), arch,
                    cons, code, impl_log, f.audit_logs)
    /\ assessed = NotAssessed
    /\ pstate = DefaultState
    /\ pphase = "unset"
    /\ paction = NoAction
    /\ perm_ws = <<>>
    /\ perm_log = <<>>
    /\ OrchestratorInit
    /\ dlg = NoDialogue
    /\ tcall = NoToolCall
    /\ api = NoApiCall
    /\ tstate = ToolNotAssessed

\* state = orchestrator.assess_project_state(project_name)
AssessProjectState ==
    /\ assessed = NotAssessed
    /\ assessed' = assess_project_state(fs)
    /\ UNCHANGED <<tstate, api, tcall, dlg, fs, phase_vars, perm_vars, orch_vars>>

\* action = orchestrator.decide_next_action(state), on the assessed state
DecideAssessed ==
    /\ assessed # NotAssessed
    /\ paction = NoAction
    /\ paction' = decide_next_action(assessed)
    /\ UNCHANGED <<tstate, api, tcall, dlg, pstate, pphase, perm_vars, fs_vars, orch_vars>>

\* A faulty variant that takes the last, not the first, of the transcripts
\* that share the newest modification time.
AssessAgain_last_of_ties ==
    /\ assessed # NotAssessed
    /\ current_state = NotAssessed
    /\ LET st == assess_project_state(fs)
           n == Len(fs.conversation)
           last == fs.conversation[CHOOSE i \in 1..n :
                      /\ \A j \in 1..n :
                            fs.conversation[j].mtime <= fs.conversation[i].mtime
                      /\ \A j \in (i + 1)..n :
                            fs.conversation[j].mtime < fs.conversation[i].mtime]
           facts == IF st.has_conversation
                    THEN [st EXCEPT !.dialogue_consensus =
                                       ConsensusMarkers \subseteq last.markers]
                    ELSE st
       IN  current_state' = [facts EXCEPT !.current_phase = _infer_phase(facts)]
    /\ UNCHANGED <<tstate, api, tcall, dlg, fs_vars, phase_vars, perm_vars, clients,
                   action_history, pc, iteration, max_iterations, exc, run>>

\* a second orchestrator.assess_project_state(project_name), on the
\* unchanged tree
AssessAgain ==
    /\ assessed # NotAssessed
    /\ current_state = NotAssessed
    /\ current_state' = assess_project_state(fs)
    /\ UNCHANGED <<tstate, api, tcall, dlg, fs_vars, phase_vars, perm_vars, clients,
                   action_history, pc, iteration, max_iterations, exc, run>>

NextAssess == AssessProjectState \/ DecideAssessed \/ AssessAgain

SpecAssess == InitAssess /\ [][NextAssess]_vars

\* which of the rules 1..8 of _infer_phase classifies a state
RulesApplying(s) ==
    LET dialogued == s.has_conversation /\ s.dialogue_consensus
        documented == s.has_architecture_doc /\ s.has_constraints_doc
        upto4 == s.has_requirements /\ dialogued /\ documented /\ s.has_code
    IN  {r \in 1..8 :
          \/ r = 1 /\ ~s.has_requirements
          \/ r = 2 /\ s.has_requirements /\ ~dialogued
          \/ r = 3 /\ s.has_requirements /\ dialogued /\ ~documented
          \/ r = 4 /\ s.has_requirements /\ dialogued /\ documented
                   /\ ~s.has_code
          \/ r = 5 /\ upto4 /\ ~s.has_audit_log
          \/ r = 6 /\ upto4 /\ s.has_audit_log /\ s.audit_passed = "False"
          \/ r = 7 /\ upto4 /\ s.has_audit_log /\ s.audit_passed = "True"
          \/ r = 8 /\ upto4 /\ s.has_audit_log /\ s.audit_passed = "None"}

RulePhase(r) ==
    CASE r = 1 -> "UNINITIALIZED"
      [] r = 2 -> "ARCHITECTURAL_DIALOGUE"
      [] r = 3 -> "DOCUMENTATION_SYNTHESIS"
      [] r = 4 -> "IMPLEMENTATION"
      [] r = 5 -> "AUDIT"
      [] r = 6 -> "FAILED"
      [] r = 7 -> "COMPLETE"
      [] OTHER -> "UNINITIALIZED"

(***************************************************************************)
(* C2: the state built by assess_project_state falls under exactly one of  *)
(* the rules 1..7, which gives its phase; rule 8 never applies, because    *)
(* audit_passed is None exactly when has_audit_log is false.               *)
(***************************************************************************)
C2_ExactlyOneRule ==
    assessed # NotAssessed =>
        /\ (assessed.audit_passed = "None") <=> ~assessed.has_audit_log
        /\ \E r \in 1..7 :
              /\ RulesApplying(assessed) = {r}
              /\ assessed.current_phase = RulePhase(r)

\* an audit log without any marker has been assessed, all stages complete
C2_Witness ==
    /\ assessed.has_audit_log
    /\ Len(fs.audit_logs) = 1
    /\ LatestByMtime(fs.audit_logs).markers = {}
    /\ assessed.current_phase = "FAILED"

(***************************************************************************)
(* Specification of the two pure functions: every ProjectState value, with *)
(* any current_phase.  The phase may be inferred before the decision, as   *)
(* in the loop, or the decision taken on the state as given, since         *)
(* decide_next_action accepts any ProjectState.                            *)
(***************************************************************************)
InitPhase ==
    /\ pstate \in ProjectState
    /\ pphase = "unset"
    /\ paction = NoAction
    /\ perm_ws = <<>>
    /\ perm_log = <<>>
    /\ fs = NoWorkspace
    /\ assessed = DefaultState
    /\ OrchestratorInit
    /\ dlg = NoDialogue
    /\ tcall = NoToolCall
    /\ api = NoApiCall
    /\ tstate = ToolNotAssessed

\* state.current_phase = self._infer_phase(state)
InferPhase ==
    /\ pphase = "unset"
    /\ paction = NoAction
    /\ pphase' = _infer_phase(pstate)
    /\ pstate' = [pstate EXCEPT !.current_phase = _infer_phase(pstate)]
    /\ UNCHANGED <<tstate, api, tcall, dlg, paction, perm_vars, fs_vars, orch_vars>>

\* action = self.decide_next_action(state)
DecideNextAction ==
    /\ paction = NoAction
    /\ paction' = decide_next_action(pstate)
    /\ UNCHANGED <<tstate, api, tcall, dlg, pstate, pphase, perm_vars, fs_vars, orch_vars>>

NextPhase == InferPhase \/ DecideNextAction

SpecPhase == InitPhase /\ [][NextPhase]_vars

(***************************************************************************)
(* C1: once _infer_phase has run, its result is the one the ordered        *)
(* first-match rule list gives for the facts, and a phase is never later   *)
(* than the earliest stage whose artifact is missing.                      *)
(***************************************************************************)
PhaseRank(ph) ==
    CASE ph = "UNINITIALIZED" -> 0
      [] ph = "ARCHITECTURAL_DIALOGUE" -> 1
      [] ph = "DOCUMENTATION_SYNTHESIS" -> 2
      [] ph = "IMPLEMENTATION" -> 3
      [] ph = "AUDIT" -> 4
      [] ph = "FAILED" -> 5
      [] ph = "COMPLETE" -> 5
      [] OTHER -> 6

C1_RuleList ==
    pphase # "unset" =>
        LET s == pstate
            dialogued == s.has_conversation /\ s.dialogue_consensus
            documented == s.has_architecture_doc /\ s.has_constraints_doc
        IN  /\ ~s.has_requirements => pphase = "UNINITIALIZED"
            /\ s.has_requirements /\ ~dialogued
                  => pphase = "ARCHITECTURAL_DIALOGUE"
            /\ s.has_requirements /\ dialogued /\ ~documented
                  => pphase = "DOCUMENTATION_SYNTHESIS"
            /\ s.has_requirements /\ dialogued /\ documented /\ ~s.has_code
                  => pphase = "IMPLEMENTATION"
            /\ s.has_requirements /\ dialogued /\ documented /\ s.has_code
                  /\ ~s.has_audit_log
                  => pphase = "AUDIT"
            /\ s.has_requirements /\ dialogued /\ documented /\ s.has_code
                  /\ s.has_audit_log /\ s.audit_passed = "False"
                  => pphase = "FAILED"
            /\ s.has_requirements /\ dialogued /\ documented /\ s.has_code
                  /\ s.has_audit_log /\ s.audit_passed = "True"
                  => pphase = "COMPLETE"
            \* a missing earlier artifact caps the phase
            /\ ~dialogued => PhaseRank(pphase) <= 1
            /\ ~documented => PhaseRank(pphase) <= 2
            /\ ~s.has_code => PhaseRank(pphase) <= 3
            /\ pphase = pstate.current_phase

\* code and a passing audit log exist, the documentation does not
C1_Witness ==
    /\ pphase = "DOCUMENTATION_SYNTHESIS"
    /\ pstate.has_code /\ pstate.has_audit_log
    /\ pstate.audit_passed = "True"
    /\ ~pstate.has_architecture_doc

(***************************************************************************)
(* C3: decide_next_action realises the phase-to-action table on every      *)
(* ProjectState, always returns an action, and never returns ABORT or      *)
(* UPDATE_DOCS; the reason is the literal of the branch or, for the        *)
(* fallback, the text built from the printed state.                        *)
(***************************************************************************)
C3_DecisionTable ==
    paction # NoAction =>
        LET s == pstate
            t == paction.action_type
            ph == s.current_phase
        IN  /\ t \in ActionType \ {"ABORT", "UPDATE_DOCS"}
            /\ ph = "UNINITIALIZED" /\ ~s.has_requirements
                  => t = "ASK_HUMAN" /\ paction.inputs.keys = {"need"}
            /\ ph = "ARCHITECTURAL_DIALOGUE" /\ ~s.has_conversation
                  => t = "RUN_DIALOGUE"
                       /\ paction.inputs.keys = {"requirements_path"}
            /\ ph = "ARCHITECTURAL_DIALOGUE" /\ s.has_conversation
                  /\ ~s.dialogue_consensus
                  => t = "RUN_DIALOGUE" /\ paction.inputs.keys = {"resume"}
            /\ ph = "DOCUMENTATION_SYNTHESIS" => t = "SYNTHESIZE_DOCS"
            /\ ph = "IMPLEMENTATION" => t = "IMPLEMENT_CODE"
            /\ ph = "AUDIT" => t = "RUN_AUDIT"
            /\ ph = "FAILED" => t = "ASK_HUMAN"
            /\ ph = "COMPLETE" => t = "COMPLETE"
            /\ ph = "UNINITIALIZED" /\ s.has_requirements => t = "ASK_HUMAN"
            /\ ph = "ARCHITECTURAL_DIALOGUE" /\ s.has_conversation
                  /\ s.dialogue_consensus
                  => t = "ASK_HUMAN"
            \* the fallback reason prints the state, the others are literals
            /\ Len(paction.reason) = 1
                  \/ (t = "ASK_HUMAN"
                      /\ paction.reason = <<"Unknown state: ">>
                            \o StateRepr(s)
                            \o <<". Human intervention required.">>)

\* the resume branch has been decided
C3_Witness ==
    /\ paction.action_type = "RUN_DIALOGUE"
    /\ paction.inputs.keys = {"resume"}
    /\ pstate.current_phase = "ARCHITECTURAL_DIALOGUE"
    /\ pstate.has_conversation

(***************************************************************************)
(* The implementation permission callback, workspace_code_writes, defined  *)
(* inside _execute_implementation.  Strings are sequences of tokens; each  *)
(* token stands for a fixed run of characters ("/" and "\\" are the two    *)
(* separators, "_other" a suffix glued to the preceding name), and no      *)
(* token is a prefix of another, so str.startswith and the `in` operator   *)
(* on the strings are prefix and infix tests on the token sequences.       *)
(***************************************************************************)
MaxRequests == 2

\* str.startswith
StartsWith(str, prefix) ==
    /\ Len(prefix) <= Len(str)
    /\ SubSeq(str, 1, Len(prefix)) = prefix

\* sub in str
Contains(str, sub) ==
    \E i \in 0..(Len(str) - Len(sub)) : SubSeq(str, i + 1, i + Len(sub)) = sub

\* str(state.workspace_path) for workspace_root / project_name with the
\* default relative root, an absolute root, the root ".", and a Windows
\* path, which str() renders with backslashes
WorkspaceStrs ==
    {<<"workspaces", "/", "proj">>, <<"/", "srv", "/", "proj">>, <<"proj">>,
     <<"C:", "\\", "srv", "\\", "proj">>}

\* the separator pathlib joins with on the platform of the workspace path
PathSep(ws) == IF Contains(ws, <<"\\">>) THEN "\\" ELSE "/"

\* str(state.workspace_path / "code")
CodeDir(ws) == ws \o <<PathSep(ws), "code">>

ToolNames == {"Read", "Glob", "Grep", "Write", "Edit", "Bash"}

\* file_path values a tool request may carry ("" when the key is missing)
FilePaths(ws) ==
    {<<>>,
     ws \o <<"/", "code", "/", "src", "/", "App.tsx">>,
     ws \o <<"/", "code", "/", "x">>,
     ws \o <<"\\", "code", "\\", "x">>,
     ws \o <<"/", "code">>,
     ws \o <<"/", "code", "_other", "/", "x">>,
     ws \o <<"/", "architecture", "/", "x">>,
     <<"..", "/", "..", "/", "etc", "/", "passwd">>,
     <<"..", "/", "..", "/", "etc", "/", "code", "/", "passwd">>,
     <<"/", "tmp", "/", "code", "/", "x">>,
     <<"code", "/", "x">>}

\* A faulty variant that lets every Write/Edit through.
workspace_code_writes_open(ws, tool_name, file_path) ==
    IF tool_name \in {"Read", "Glob", "Grep"} THEN "allow"
    ELSE IF tool_name \in {"Write", "Edit"} THEN "allow"
    ELSE "deny"

\* A faulty variant that lets tools it does not know through.
workspace_code_writes_default_allow(ws, tool_name, file_path) ==
    IF tool_name \in {"Read", "Glob", "Grep"} THEN "allow"
    ELSE IF tool_name \in {"Write", "Edit"} THEN
        IF \/ StartsWith(file_path, CodeDir(ws))
           \/ StartsWith(file_path, ws \o <<"/", "code", "/">>)
           \/ StartsWith(file_path, ws \o <<"\\", "code", "\\">>)
           \/ Contains(file_path, <<"\\", "code", "\\">>)
           \/ Contains(file_path, <<"/", "code", "/">>)
        THEN "allow"
        ELSE "deny"
    ELSE "allow"

workspace_code_writes(ws, tool_name, file_path) ==
    \* Always allow read operations
    IF tool_name \in {"Read", "Glob", "Grep"} THEN "allow"
    \* Allow writes to code/ directory
    ELSE IF tool_name \in {"Write", "Edit"} THEN
        IF \/ StartsWith(file_path, CodeDir(ws))
           \/ StartsWith(file_path, ws \o <<"/", "code", "/">>)
           \/ StartsWith(file_path, ws \o <<"\\", "code", "\\">>)
           \/ Contains(file_path, <<"\\", "code", "\\">>)
           \/ Contains(file_path, <<"/", "code", "/">>)
        THEN "allow"
        ELSE "deny"
    ELSE "deny"

InitPerm ==
    /\ perm_ws \in WorkspaceStrs
    /\ perm_log = <<>>
    /\ pstate = DefaultState
    /\ pphase = "unset"
    /\ paction = NoAction
    /\ fs = NoWorkspace
    /\ assessed = DefaultState
    /\ OrchestratorInit
    /\ dlg = NoDialogue
    /\ tcall = NoToolCall
    /\ api = NoApiCall
    /\ tstate = ToolNotAssessed

\* The SDK asks can_use_tool for one tool request of the implementation agent
PermissionRequest ==
    /\ Len(perm_log) < MaxRequests
    /\ \E tool \in ToolNames, path \in FilePaths(perm_ws) :
          perm_log' = Append(perm_log,
              [tool |-> tool, file_path |-> path,
               result |-> workspace_code_writes(perm_ws, tool, path)])
    /\ UNCHANGED <<tstate, api, tcall, dlg, perm_ws, phase_vars, fs_vars, orch_vars>>

NextPerm == PermissionRequest

SpecPerm == InitPerm /\ [][NextPerm]_vars

\* file_path lies beneath <workspace>/code: the code directory is a prefix of
\* it at a path-component boundary, with either separator
BeneathCodeDir(ws, path) ==
    \/ path = CodeDir(ws)
    \/ StartsWith(path, CodeDir(ws) \o <<"/">>)
    \/ path = ws \o <<"\\", "code">>
    \/ StartsWith(path, ws \o <<"\\", "code", "\\">>)

(***************************************************************************)
(* C7: every Write/Edit request whose file_path is not beneath the         *)
(* workspace's code directory is denied.                                   *)
(***************************************************************************)
C7_WritesOutsideCodeDenied ==
    \A i \in 1..Len(perm_log) :
        (/\ perm_log[i].tool \in {"Write", "Edit"}
         /\ ~BeneathCodeDir(perm_ws, perm_log[i].file_path))
            => perm_log[i].result = "deny"

(***************************************************************************)
(* C8: a Write/Edit to ../../etc/passwd is denied and a Write/Edit to      *)
(* <workspace>/code/src/App.tsx is allowed, whatever the workspace path.   *)
(***************************************************************************)
C8_PasswdDeniedAppAllowed ==
    \A i \in 1..Len(perm_log) :
        perm_log[i].tool \in {"Write", "Edit"} =>
            /\ perm_log[i].file_path
                   = <<"..", "/", "..", "/", "etc", "/", "passwd">>
                 => perm_log[i].result = "deny"
            /\ perm_log[i].file_path
                   = perm_ws \o <<"/", "code", "/", "src", "/", "App.tsx">>
                 => perm_log[i].result = "allow"

\* both requests have been decided in one session
C8_Witness ==
    /\ \E i \in 1..Len(perm_log) :
          /\ perm_log[i].tool = "Write"
          /\ perm_log[i].file_path
                 = <<"..", "/", "..", "/", "etc", "/", "passwd">>
    /\ \E i \in 1..Len(perm_log) :
          /\ perm_log[i].tool = "Edit"
          /\ perm_log[i].file_path
                 = perm_ws \o <<"/", "code", "/", "src", "/", "App.tsx">>

(***************************************************************************)
(* C9: Read, Glob and Grep are allowed whatever the path, every tool other *)
(* than Read, Glob, Grep, Write and Edit is denied whatever the input, and *)
(* two requests with the same tool and path get the same decision wherever *)
(* they stand in the session.                                              *)
(***************************************************************************)
C9_ReadsAllowedOthersDenied ==
    /\ \A i \in 1..Len(perm_log) :
          /\ perm_log[i].tool \in {"Read", "Glob", "Grep"}
                => perm_log[i].result = "allow"
          /\ perm_log[i].tool \notin {"Read", "Glob", "Grep", "Write", "Edit"}
                => perm_log[i].result = "deny"
    /\ \A i, j \in 1..Len(perm_log) :
          (/\ perm_log[i].tool = perm_log[j].tool
           /\ perm_log[i].file_path = perm_log[j].file_path)
              => perm_log[i].result = perm_log[j].result

\* a read outside the workspace after a denied write, and another tool
C9_Witness ==
    /\ Len(perm_log) = 2
    /\ perm_log[1].tool = "Bash" /\ perm_log[1].result = "deny"
    /\ perm_log[2].tool = "Read" /\ perm_log[2].result = "allow"
    /\ perm_log[2].file_path = <<"..", "/", "..", "/", "etc", "/", "passwd">>

(***************************************************************************)
(* The action executor.  Each _execute_* operator gives the effect of one  *)
(* whole handler call: the tree and the clients afterwards, the exception  *)
(* that escapes ("none" if the handler returns), and the clients it has    *)
(* connected and disconnected.  A collaborator call (connect, query) may   *)
(* raise; `fail` names the first call that does.  A query through a client *)
(* that was disconnected earlier raises as well.                           *)
(***************************************************************************)
MaxIterations == 6
MaxRuns == 2

\* A faulty variant in which a question to the human does not end the loop.
HaltingActions_without_ask_human == {"COMPLETE", "ABORT"}

HaltingActions == {"COMPLETE", "ASK_HUMAN", "ABORT"}

ExecResult(tree, cl, e, fault, conn, iconn, idisc) ==
    [fs |-> tree, clients |-> cl, exc |-> e, fault |-> fault,
     connected |-> conn, impl_connects |-> iconn, impl_disconnects |-> idisc]

\* A faulty variant that looks for each marker in every turn.
HasConsensus_any_turn(architect_msg_1, coder_msg_1, architect_msg_2, coder_msg_2) ==
    LET all == architect_msg_1 \cup coder_msg_1 \cup architect_msg_2
                  \cup coder_msg_2
    IN  "CONSENSUS" \in all /\ "AGREED" \in all

\* has_consensus, from the four responses (the markers each one contains)
HasConsensus(architect_msg_1, coder_msg_1, architect_msg_2, coder_msg_2) ==
    /\ ("CONSENSUS" \in architect_msg_2 \/ "CONSENSUS" \in architect_msg_1)
    /\ ("AGREED" \in coder_msg_2 \/ "AGREED" \in coder_msg_1)

\* open(path, 'w') on a directory listing: a file of the same name is
\* replaced, any other name is a new file
WriteFile(files, f) ==
    IF \E i \in 1..Len(files) : files[i].name = f.name
    THEN [i \in 1..Len(files) |->
            IF files[i].name = f.name THEN f ELSE files[i]]
    ELSE Append(files, f)

\* the transcript file written at the end of _execute_dialogue: it is named
\* dialogue_<timestamp>.md after the clock second `ts` at which it is saved,
\* and its modification time is the latest
\* A faulty variant whose transcript holds the header but not the turns.
DialogueFile_header_only(tree, ts, a1, c1, a2, c2) ==
    [name |-> ts, mtime |-> MaxMtime,
     markers |-> {},
     header |-> IF HasConsensus(a1, c1, a2, c2) THEN "YES" ELSE "NO"]

DialogueFile(tree, ts, a1, c1, a2, c2) ==
    [name |-> ts, mtime |-> MaxMtime,
     markers |-> a1 \cup c1 \cup a2 \cup c2,
     header |-> IF HasConsensus(a1, c1, a2, c2) THEN "YES" ELSE "NO"]

DialogueFails ==
    {"none", "create_architect", "create_coder",
     "query_1", "query_2", "query_3", "query_4"}

_execute_dialogue(tree, cl, action, fail, ts, a1, c1, a2, c2) ==
    LET newArch == cl["architect"] = "None"
        newCoder == cl["coder"] = "None"
        cl1 == IF newArch THEN [cl EXCEPT !["architect"] = "connected"] ELSE cl
        cl2 == IF newCoder THEN [cl1 EXCEPT !["coder"] = "connected"] ELSE cl1
        conn1 == IF newArch THEN {"architect"} ELSE {}
        conn2 == conn1 \cup (IF newCoder THEN {"coder"} ELSE {})
        archDead == cl2["architect"] = "disconnected"
        coderDead == cl2["coder"] = "disconnected"
    IN  IF newArch /\ fail = "create_architect"
        THEN ExecResult(tree, cl, "collaborator", TRUE, {}, 0, 0)
        ELSE IF newCoder /\ fail = "create_coder"
        THEN ExecResult(tree, cl1, "collaborator", TRUE, conn1, 0, 0)
        \* requirements_path = action.inputs.get("requirements_path")
        \* project_description = requirements_path.read_text(...)
        ELSE IF "requirements_path" \notin action.inputs.keys
        THEN ExecResult(tree, cl2, "AttributeError", FALSE, conn2, 0, 0)
        ELSE IF ~tree.requirements
        THEN ExecResult(tree, cl2, "FileNotFoundError", FALSE, conn2, 0, 0)
        ELSE IF \/ archDead \/ coderDead
                \/ fail \in {"query_1", "query_2", "query_3", "query_4"}
        THEN ExecResult(tree, cl2, "collaborator", TRUE, conn2, 0, 0)
        ELSE ExecResult(
                [tree EXCEPT
                    !.dirs = @ \cup {"workspace", "conversation"},
                    !.conversation =
                        WriteFile(@, DialogueFile(tree, ts, a1, c1, a2, c2))],
                cl2, "none", FALSE, conn2, 0, 0)

DocsFails == {"none", "create_docs", "query_1", "query_2"}

\* A faulty variant that writes both documents only after both queries.
_execute_docs_synthesis_atomic(tree, cl, action, fail) ==
    LET newDocs == cl["docs"] = "None"
        cl1 == IF newDocs THEN [cl EXCEPT !["docs"] = "connected"] ELSE cl
        conn == IF newDocs THEN {"docs"} ELSE {}
    IN  IF newDocs /\ fail = "create_docs"
        THEN ExecResult(tree, cl, "collaborator", TRUE, {}, 0, 0)
        ELSE IF "conversation" \notin tree.dirs \/ tree.conversation = <<>>
        THEN ExecResult(tree, cl1, "none", FALSE, conn, 0, 0)
        ELSE IF cl1["docs"] = "disconnected" \/ fail \in {"query_1", "query_2"}
        THEN ExecResult(tree, cl1, "collaborator", TRUE, conn, 0, 0)
        ELSE ExecResult(
                [tree EXCEPT !.dirs = @ \cup {"workspace", "architecture"},
                             !.architecture_doc = TRUE,
                             !.constraints_doc = TRUE],
                cl1, "none", FALSE, conn, 0, 0)

_execute_docs_synthesis(tree, cl, action, fail) ==
    LET newDocs == cl["docs"] = "None"
        cl1 == IF newDocs THEN [cl EXCEPT !["docs"] = "connected"] ELSE cl
        conn == IF newDocs THEN {"docs"} ELSE {}
        withArch == [tree EXCEPT
                        !.dirs = @ \cup {"workspace", "architecture"},
                        !.architecture_doc = TRUE]
    IN  IF newDocs /\ fail = "create_docs"
        THEN ExecResult(tree, cl, "collaborator", TRUE, {}, 0, 0)
        \* if not conversation_files: return
        ELSE IF "conversation" \notin tree.dirs \/ tree.conversation = <<>>
        THEN ExecResult(tree, cl1, "none", FALSE, conn, 0, 0)
        ELSE IF cl1["docs"] = "disconnected" \/ fail = "query_1"
        THEN ExecResult(tree, cl1, "collaborator", TRUE, conn, 0, 0)
        \* ARCHITECTURE.md is saved before the second query
        ELSE IF fail = "query_2"
        THEN ExecResult(withArch, cl1, "collaborator", TRUE, conn, 0, 0)
        ELSE ExecResult([withArch EXCEPT !.constraints_doc = TRUE],
                        cl1, "none", FALSE, conn, 0, 0)

ImplFails == {"none", "connect", "query", "disconnect"}

\* A faulty variant without the try/finally around the query.
_execute_implementation_no_finally(tree, cl, action, fail, written) ==
    LET wrote == [tree EXCEPT
                    !.dirs = @ \cup (IF written # {}
                                     THEN {"workspace", "code"} ELSE {}),
                    !.code_files = @ \cup written]
        logged == [wrote EXCEPT !.dirs = @ \cup {"workspace", "logs"},
                                !.impl_logs = @ + 1]
    IN  IF ~("architecture" \in tree.dirs /\ tree.architecture_doc
                /\ tree.constraints_doc)
        THEN ExecResult(tree, cl, "none", FALSE, {}, 0, 0)
        ELSE IF fail = "connect"
        THEN ExecResult(tree, cl, "collaborator", TRUE, {}, 0, 0)
        ELSE IF fail = "query"
        THEN ExecResult(wrote, cl, "collaborator", TRUE, {}, 1, 0)
        ELSE IF fail = "disconnect"
        THEN ExecResult(logged, cl, "collaborator", TRUE, {}, 1, 1)
        ELSE ExecResult(logged, cl, "none", FALSE, {}, 1, 1)

\* `written` are the extensions of the files the implementation agent
\* created under code/ through its Write tool while the query ran
_execute_implementation(tree, cl, action, fail, written) ==
    LET wrote == [tree EXCEPT
                    !.dirs = @ \cup (IF written # {}
                                     THEN {"workspace", "code"} ELSE {}),
                    !.code_files = @ \cup written]
        logged == [wrote EXCEPT !.dirs = @ \cup {"workspace", "logs"},
                                !.impl_logs = @ + 1]
    IN  \* if not arch_file.exists() or not constraints_file.exists(): return
        IF ~("architecture" \in tree.dirs /\ tree.architecture_doc
                /\ tree.constraints_doc)
        THEN ExecResult(tree, cl, "none", FALSE, {}, 0, 0)
        \* await impl_client.connect()
        ELSE IF fail = "connect"
        THEN ExecResult(tree, cl, "collaborator", TRUE, {}, 0, 0)
        \* try: query ... finally: await impl_client.disconnect()
        ELSE IF fail = "query"
        THEN ExecResult(wrote, cl, "collaborator", TRUE, {}, 1, 1)
        ELSE IF fail = "disconnect"
        THEN ExecResult(logged, cl, "collaborator", TRUE, {}, 1, 1)
        ELSE ExecResult(logged, cl, "none", FALSE, {}, 1, 1)

\* print and pass: no audit agent is run and nothing is written
_execute_audit(tree, cl, action) ==
    ExecResult(tree, cl, "none", FALSE, {}, 0, 0)

\* A faulty variant that saves the question under logs/.
_ask_human_saves_question(tree, cl, action) ==
    ExecResult([tree EXCEPT !.dirs = @ \cup {"workspace", "logs"},
                            !.implementation_log = TRUE],
               cl, "none", FALSE, {}, 0, 0)

\* prints the reason and the options
_ask_human(tree, cl, action) ==
    ExecResult(tree, cl, "none", FALSE, {}, 0, 0)

(***************************************************************************)
(* DynamicOrchestrator.cleanup_agents: disconnect() is called on every     *)
(* client attribute that is set; `raising` are the roles whose disconnect  *)
(* raises, which the per-client try/except swallows.  The result is the    *)
(* set of roles on which disconnect() was called.                          *)
(***************************************************************************)
CleanupOrder == <<"architect", "coder", "docs", "audit">>

\* A faulty variant with the try/except around the whole loop.
cleanup_agents_one_try(cl, raising) ==
    {CleanupOrder[i] : i \in
        {k \in 1..4 :
            /\ cl[CleanupOrder[k]] # "None"
            /\ \A j \in 1..(k - 1) :
                  ~(cl[CleanupOrder[j]] # "None"
                    /\ CleanupOrder[j] \in raising)}}

cleanup_agents(cl, raising) ==
    {CleanupOrder[i] : i \in {k \in 1..4 : cl[CleanupOrder[k]] # "None"}}

(***************************************************************************)
(* DynamicOrchestrator.orchestrate                                         *)
(***************************************************************************)
\* the trees an orchestrate() call may find: requirements or not, at most
\* one transcript (with both markers or none), both documents or none, a
\* code file or none, at most one audit log (passed or failed), each
\* independently of the others, in the directories they need
ProjectTrees ==
    {Tree(FALSE, req, NamedTranscripts(conv), docs[1], docs[2], code, FALSE,
          audits) :
        req \in BOOLEAN,
        conv \in {<<>>, <<[mtime |-> 0, markers |-> {}]>>,
                  <<[mtime |-> 0, markers |-> ConsensusMarkers]>>},
        docs \in {<<FALSE, FALSE>>, <<TRUE, TRUE>>},
        code \in {{}, {"tsx"}},
        audits \in {<<>>, <<[mtime |-> 0, markers |-> {"PASS"}]>>,
                    <<[mtime |-> 0, markers |-> {"FAIL"}]>>}}

\* a workspace that contains requirements.md and nothing else
OnlyRequirements ==
    [NoWorkspace EXCEPT !.dirs = {"workspace"}, !.requirements = TRUE]

Init ==
    /\ fs \in ProjectTrees
    /\ assessed = NotAssessed
    /\ pstate = DefaultState
    /\ pphase = "unset"
    /\ paction = NoAction
    /\ perm_ws = <<>>
    /\ perm_log = <<>>
    /\ OrchestratorInit
    /\ dlg = NoDialogue
    /\ tcall = NoToolCall
    /\ api = NoApiCall
    /\ tstate = ToolNotAssessed

\* orchestrate(project_name, max_iterations) up to the try: the workspace
\* and logs directories and the first lines of the orchestration log
OrchestrateStart ==
    /\ pc \in {"idle", "done"}
    /\ run.number < MaxRuns
    /\ \E n \in 0..MaxIterations : max_iterations' = n
    /\ fs' = [fs EXCEPT !.dirs = @ \cup {"workspace", "logs"},
                        !.orch_logs = @ + 1]
    /\ run' = [NoRun EXCEPT !.number = run.number + 1,
                            !.outcome = "running",
                            !.only_requirements = (fs = OnlyRequirements)]
    /\ pc' = "loop"
    /\ iteration' = 0
    /\ exc' = "none"
    /\ UNCHANGED <<tstate, api, tcall, dlg, clients, action_history, current_state, assessed,
                   phase_vars, perm_vars>>

\* One pass through the loop body: assess, decide, execute_action (which
\* appends to the history before it dispatches), then the halt test.
\* `r` is the effect of the dispatched handler.
LoopBody(state, action, r) ==
    /\ assessed' = state
    /\ current_state' = state
    /\ action_history' = Append(action_history, action)
    /\ iteration' = iteration + 1
    /\ fs' = r.fs
    /\ clients' = r.clients
    /\ exc' = r.exc
    /\ run' = [run EXCEPT
                 !.phases = Append(@, state.current_phase),
                 !.connected = @ \cup r.connected,
                 !.created = [x \in Roles |->
                                 IF x \in r.connected
                                 THEN Append(@[x], iteration + 1) ELSE @[x]],
                 !.impl_connects = @ + r.impl_connects,
                 !.impl_disconnects = @ + r.impl_disconnects,
                 !.faults = @ \/ r.fault]
    /\ pc' = IF r.exc # "none" THEN "cleanup"
             ELSE IF action.action_type \in HaltingActions THEN "summary"
             ELSE "loop"
    /\ UNCHANGED <<tstate, api, tcall, dlg, max_iterations, phase_vars, perm_vars>>

\* A faulty variant: a while loop that ignores the iteration cap.
InLoop_uncapped == pc = "loop" /\ iteration < max_iterations + 1

InLoop == pc = "loop" /\ iteration < max_iterations

\* The transcript is named after the clock second dlg.now; the loop runs a
\* full dialogue only while conversation/ holds no transcript, so the name
\* never meets an existing one and the clock is not advanced here.
IterateDialogue ==
    /\ InLoop
    /\ LET state == assess_project_state(fs)
           action == decide_next_action(state)
       IN  /\ action.action_type = "RUN_DIALOGUE"
           /\ \/ \E fail \in DialogueFails \ {"none"} :
                    LoopBody(state, action,
                        _execute_dialogue(fs, clients, action, fail,
                                          dlg.now, {}, {}, {}, {}))
              \/ \E a1, c1, a2, c2 \in SUBSET ConsensusMarkers :
                    LoopBody(state, action,
                        _execute_dialogue(fs, clients, action, "none",
                                          dlg.now, a1, c1, a2, c2))

IterateDocsSynthesis ==
    /\ InLoop
    /\ LET state == assess_project_state(fs)
           action == decide_next_action(state)
       IN  /\ action.action_type = "SYNTHESIZE_DOCS"
           /\ \E fail \in DocsFails :
                 LoopBody(state, action,
                     _execute_docs_synthesis(fs, clients, action, fail))

IterateImplementation ==
    /\ InLoop
    /\ LET state == assess_project_state(fs)
           action == decide_next_action(state)
       IN  /\ action.action_type = "IMPLEMENT_CODE"
           /\ \E fail \in ImplFails, written \in SUBSET CodeExts :
                 LoopBody(state, action,
                     _execute_implementation(fs, clients, action, fail,
                                             written))

IterateAudit ==
    /\ InLoop
    /\ LET state == assess_project_state(fs)
           action == decide_next_action(state)
       IN  /\ action.action_type = "RUN_AUDIT"
           /\ LoopBody(state, action, _execute_audit(fs, clients, action))

IterateAskHuman ==
    /\ InLoop
    /\ LET state == assess_project_state(fs)
           action == decide_next_action(state)
       IN  /\ action.action_type = "ASK_HUMAN"
           /\ LoopBody(state, action, _ask_human(fs, clients, action))

\* execute_action prints the success message itself
IterateComplete ==
    /\ InLoop
    /\ LET state == assess_project_state(fs)
           action == decide_next_action(state)
       IN  /\ action.action_type = "COMPLETE"
           /\ LoopBody(state, action,
                       ExecResult(fs, clients, "none", FALSE, {}, 0, 0))

\* A faulty variant whose warning is not tied to the loop's else branch.
WriteSummary_always_warns ==
    /\ \/ pc = "summary"
       \/ pc = "loop" /\ iteration = max_iterations
    /\ run' = [run EXCEPT !.summary = TRUE, !.max_reached = TRUE]
    /\ pc' = "cleanup"
    /\ UNCHANGED <<tstate, api, tcall, dlg, fs, assessed, clients, action_history, current_state,
                   iteration, max_iterations, exc, phase_vars, perm_vars>>

\* after the loop: the for-else warning when the range is exhausted, then
\* the orchestration summary
WriteSummary ==
    /\ \/ pc = "summary"
       \/ pc = "loop" /\ iteration = max_iterations
    /\ run' = [run EXCEPT !.summary = TRUE,
                          !.max_reached = (pc = "loop")]
    /\ pc' = "cleanup"
    /\ UNCHANGED <<tstate, api, tcall, dlg, fs, assessed, clients, action_history, current_state,
                   iteration, max_iterations, exc, phase_vars, perm_vars>>

\* finally: await self.cleanup_agents(); then orchestrate returns, or the
\* pending exception propagates to the caller
CleanupAgents ==
    /\ pc = "cleanup"
    /\ \E raising \in {{}} \cup {{r} : r \in {x \in Roles : clients[x] # "None"}} :
          LET called == cleanup_agents(clients, raising)
          IN  /\ clients' = [r \in Roles |->
                                IF r \in called THEN "disconnected"
                                ELSE clients[r]]
              /\ run' = [run EXCEPT
                           !.disconnected = @ \cup called,
                           !.cleanup_raised = raising,
                           !.outcome = IF exc # "none" THEN "raised"
                                       ELSE "returned"]
    /\ pc' = "done"
    /\ UNCHANGED <<tstate, api, tcall, dlg, fs, assessed, action_history, current_state, iteration,
                   max_iterations, exc, phase_vars, perm_vars>>

Next ==
    \/ OrchestrateStart
    \/ IterateDialogue
    \/ IterateDocsSynthesis
    \/ IterateImplementation
    \/ IterateAudit
    \/ IterateAskHuman
    \/ IterateComplete
    \/ WriteSummary
    \/ CleanupAgents

Spec == Init /\ [][Next]_vars

LastAction == action_history[Len(action_history)]

\* this call ran with every collaborator call succeeding: no call raised,
\* the dialogue ended in consensus and the one implementation call wrote a
\* recognised file
AllCollaboratorsSucceeded ==
    /\ ~run.faults
    /\ run.impl_connects = 1
    /\ fs.conversation # <<>>
    /\ \A i \in 1..Len(fs.conversation) : fs.conversation[i].header = "YES"
    /\ "tsx" \in fs.code_files

(***************************************************************************)
(* C4: a run that starts from a workspace holding only requirements.md,    *)
(* with every collaborator call succeeding and room for six iterations,    *)
(* assesses UNINITIALIZED, ARCHITECTURAL_DIALOGUE, DOCUMENTATION_SYNTHESIS,*)
(* IMPLEMENTATION, AUDIT, COMPLETE in this order and ends with COMPLETE.   *)
(***************************************************************************)
C4_HappyPath ==
    (/\ pc = "done"
     /\ run.only_requirements
     /\ max_iterations >= 6
     /\ AllCollaboratorsSucceeded)
        => /\ run.phases = <<"UNINITIALIZED", "ARCHITECTURAL_DIALOGUE",
                             "DOCUMENTATION_SYNTHESIS", "IMPLEMENTATION",
                             "AUDIT", "COMPLETE">>
           /\ LastAction.action_type = "COMPLETE"

(***************************************************************************)
(* C5: when a collaborator call raises during execute_action, orchestrate  *)
(* does not end with an exception and the orchestration summary is still   *)
(* written.                                                                *)
(***************************************************************************)
C5_FailureCaught ==
    (pc = "done" /\ run.faults)
        => (run.outcome = "returned" /\ run.summary)

(***************************************************************************)
(* C6: an iteration that selects RUN_DIALOGUE to resume (a transcript      *)
(* exists, without consensus) runs a further dialogue, which, unless a     *)
(* collaborator call fails, leaves a new transcript.                       *)
(***************************************************************************)
C6_ResumeRunsDialogue ==
    (/\ iteration > 0
     /\ LastAction.action_type = "RUN_DIALOGUE"
     /\ LastAction.inputs.keys = {"resume"}
     /\ ~run.faults)
        => (exc = "none" /\ Len(fs.conversation) >= 2)

(***************************************************************************)
(* C10: when orchestrate has returned or raised, no client is left         *)
(* connected: every role client and every implementation client connected  *)
(* during the call has had disconnect() called, also when one of the       *)
(* disconnects in cleanup_agents raised.                                   *)
(***************************************************************************)
C10_ClientsReleased ==
    pc = "done" =>
        /\ \A r \in Roles : clients[r] # "connected"
        /\ run.connected \subseteq run.disconnected
        /\ run.impl_connects = run.impl_disconnects

\* an exception left the loop with all four kinds of client connected, and
\* the architect's disconnect raised during cleanup
C10_Witness ==
    /\ pc = "done"
    /\ run.outcome = "raised"
    /\ run.connected = {"architect", "coder", "docs"}
    /\ run.impl_connects >= 1
    /\ run.cleanup_raised = {"architect"}

\* the actions executed by the current orchestrate() call: the last
\* `iteration` entries of the history
RunActions ==
    SubSeq(action_history, Len(action_history) - iteration + 1,
           Len(action_history))

(***************************************************************************)
(* C11: once an iteration of a call has executed COMPLETE, ASK_HUMAN or    *)
(* ABORT the call runs no further iteration: such an action is the last    *)
(* action the call executed and the last entry of the history, and the     *)
(* loop is no longer at a point from which it assesses, decides or         *)
(* executes.                                                               *)
(***************************************************************************)
C11_HaltingActionIsLast ==
    /\ [](\A i \in 1..Len(RunActions) :
            RunActions[i].action_type \in {"COMPLETE", "ASK_HUMAN", "ABORT"}
                => /\ i = Len(RunActions)
                   /\ RunActions[i] = LastAction
                   /\ pc \in {"summary", "cleanup", "done"})
    /\ [][(/\ iteration > 0
           /\ iteration' > 0
           /\ LastAction.action_type \in {"COMPLETE", "ASK_HUMAN", "ABORT"})
            => UNCHANGED <<tstate, api, tcall, action_history, iteration, assessed,
                           current_state, fs>>]_vars

\* a call with iterations to spare has ended on ASK_HUMAN in its second
\* iteration, after a dialogue that reached consensus
C11_Witness ==
    /\ pc = "done"
    /\ iteration = 2
    /\ max_iterations > 2
    /\ RunActions[1].action_type = "RUN_DIALOGUE"
    /\ LastAction.action_type = "ASK_HUMAN"

\* no action executed by the current call is a halting one
NoHaltingAction ==
    \A i \in 1..Len(RunActions) :
        RunActions[i].action_type \notin {"COMPLETE", "ASK_HUMAN", "ABORT"}

(***************************************************************************)
(* C12: a call ends with the "max iterations reached" warning exactly when *)
(* it has executed max_iterations iterations and none of them executed a   *)
(* halting action, never after a halting action.  In particular a first    *)
(* call with max_iterations = 1 on a project that still needs its          *)
(* documents, its code and its audit ends with the warning and exactly one *)
(* entry in the action history.  (An iteration whose action raises ends    *)
(* the call by that exception; it is not a completed iteration.)           *)
(***************************************************************************)
C12_MaxIterationsOutcome ==
    pc = "done" =>
        /\ run.max_reached =>
              /\ iteration = max_iterations
              /\ NoHaltingAction
              /\ run.outcome = "returned"
        /\ (exc = "none" /\ iteration = max_iterations /\ NoHaltingAction)
              => (run.max_reached /\ run.summary)
        /\ (/\ run.number = 1
            /\ max_iterations = 1
            /\ run.phases = <<"DOCUMENTATION_SYNTHESIS">>)
              => /\ Len(action_history) = 1
                 /\ exc = "none" => run.max_reached

\* a first call with max_iterations = 1 synthesized the documents and ended
\* with the warning, implementation and audit still to do
C12_Witness ==
    /\ pc = "done"
    /\ run.number = 1
    /\ max_iterations = 1
    /\ run.phases = <<"DOCUMENTATION_SYNTHESIS">>
    /\ fs.constraints_doc
    /\ run.max_reached
    /\ Len(action_history) = 1

(***************************************************************************)
(* Specification of one architect / coder dialogue on a workspace holding  *)
(* only requirements.md, every collaborator call succeeding, run by a      *)
(* direct call of each of its three drivers and assessed at any point.     *)
(* dlg.turns are the four responses (architect, coder, architect, coder),  *)
(* each the set of marker literals its text contains.                      *)
(***************************************************************************)
DialogueTurns == [1..4 -> SUBSET ConsensusMarkers]

\* dlg.now is the wall clock in seconds, dlg.dialogues the number of direct
\* calls of _execute_dialogue so far
MaxClock == 1
MaxDialogues == 2

\* agents/run_dialogue.py, run_dialogue(project_name): the returned
\* consensus_reached and the tree with the transcript it saves
run_dialogue(tree, ts, a1, c1, a2, c2) ==
    LET architect_msg_1 == a1
        coder_msg_1 == c1
        architect_msg_2 == a2
        coder_msg_2 == c2
        consensus ==
            /\ ("CONSENSUS" \in architect_msg_2
                  \/ "CONSENSUS" \in architect_msg_1)
            /\ ("AGREED" \in coder_msg_2 \/ "AGREED" \in coder_msg_1)
    IN  IF ~tree.requirements
        THEN [fs |-> [tree EXCEPT !.dirs = @ \cup {"workspace"}],
              consensus_reached |-> "None"]
        ELSE [fs |-> [tree EXCEPT
                        !.dirs = @ \cup {"workspace", "conversation"},
                        !.conversation = WriteFile(@,
                            [name |-> ts,
                             mtime |-> MaxMtime,
                             markers |-> architect_msg_1 \cup coder_msg_1
                                 \cup architect_msg_2 \cup coder_msg_2,
                             header |-> IF consensus THEN "YES" ELSE "NO"])],
              consensus_reached |-> PyBool(consensus)]

\* orchestrator_stateful.py, StatefulArchitecturalDialogue.run_dialogue: the
\* returned has_consensus
StatefulArchitecturalDialogue_run_dialogue(a1, c1, a2, c2) ==
    LET architect_msg_1 == a1
        coder_msg_1 == c1
        architect_msg_2 == a2
        coder_msg_2 == c2
    IN  /\ ("CONSENSUS" \in architect_msg_2
              \/ "CONSENSUS" \in architect_msg_1)
        /\ ("AGREED" \in coder_msg_2 \/ "AGREED" \in coder_msg_1)

InitDialogue ==
    /\ fs = OnlyRequirements
    /\ \E t \in DialogueTurns : dlg = [NoDialogue EXCEPT !.turns = t]
    /\ tcall = NoToolCall
    /\ api = NoApiCall
    /\ tstate = ToolNotAssessed
    /\ assessed = NotAssessed
    /\ pstate = DefaultState
    /\ pphase = "unset"
    /\ paction = NoAction
    /\ perm_ws = <<>>
    /\ perm_log = <<>>
    /\ clients = [r \in Roles |-> "None"]
    /\ action_history = <<>>
    /\ current_state = NotAssessed
    /\ pc = "idle"
    /\ iteration = 0
    /\ max_iterations = 0
    /\ exc = "none"
    /\ run = NoRun

\* await orchestrator._execute_dialogue(action), with the action decided for
\* the project that holds only its requirements
ExecuteDialogue ==
    /\ dlg.dialogues < MaxDialogues
    /\ LET action == decide_next_action(assess_project_state(OnlyRequirements))
           t == dlg.turns
           r == _execute_dialogue(fs, clients, action, "none", dlg.now,
                                  t[1], t[2], t[3], t[4])
       IN  /\ fs' = r.fs
           /\ clients' = r.clients
           /\ dlg' = [dlg EXCEPT
                         !.dynamic =
                             PyBool(HasConsensus(t[1], t[2], t[3], t[4])),
                         !.dialogues = @ + 1]
    /\ UNCHANGED <<tstate, api, tcall, assessed, action_history, current_state, pc, iteration,
                   max_iterations, exc, run, phase_vars, perm_vars>>

\* python run_dialogue.py <project_name>
RunDialogueScript ==
    /\ dlg.standalone = "None"
    /\ LET t == dlg.turns
           r == run_dialogue(fs, dlg.now, t[1], t[2], t[3], t[4])
       IN  /\ fs' = r.fs
           /\ dlg' = [dlg EXCEPT !.standalone = r.consensus_reached]
    /\ UNCHANGED <<tstate, api, tcall, assessed, phase_vars, perm_vars, orch_vars>>

\* consensus = await dialogue.run_dialogue(project_description); the session
\* is saved outside the workspace
StatefulRunDialogue ==
    /\ dlg.stateful = "None"
    /\ LET t == dlg.turns
       IN  dlg' = [dlg EXCEPT !.stateful =
                      PyBool(StatefulArchitecturalDialogue_run_dialogue(
                                 t[1], t[2], t[3], t[4]))]
    /\ UNCHANGED <<tstate, api, tcall, fs_vars, phase_vars, perm_vars, orch_vars>>

\* a second passes on the wall clock
Tick ==
    /\ dlg.now < MaxClock
    /\ dlg' = [dlg EXCEPT !.now = @ + 1]
    /\ UNCHANGED <<tstate, api, tcall, fs_vars, phase_vars, perm_vars, orch_vars>>

NextDialogue ==
    \/ Tick
    \/ ExecuteDialogue
    \/ RunDialogueScript
    \/ StatefulRunDialogue
    \/ AssessProjectState

SpecDialogue == InitDialogue /\ [][NextDialogue]_vars

\* the markers found in the architect's turns, and in the coder's
ArchitectMarkers == dlg.turns[1] \cup dlg.turns[3]
CoderMarkers == dlg.turns[2] \cup dlg.turns[4]

(***************************************************************************)
(* C13: the consensus value each dialogue driver computes is true exactly  *)
(* when CONSENSUS occurs in at least one architect turn and AGREED in at   *)
(* least one coder turn, whichever turn of the role it is; a marker that   *)
(* occurs only in the other role's turns does not count.  The transcript   *)
(* header written by the orchestrator's dialogue says YES exactly then.    *)
(***************************************************************************)
C13_ConsensusByRole ==
    LET expected == PyBool("CONSENSUS" \in ArchitectMarkers
                           /\ "AGREED" \in CoderMarkers)
    IN  /\ dlg.dynamic # "None" =>
              /\ dlg.dynamic = expected
              /\ \E i \in 1..Len(fs.conversation) :
                    fs.conversation[i].header =
                        (IF expected = "True" THEN "YES" ELSE "NO")
        /\ dlg.standalone # "None" => dlg.standalone = expected
        /\ dlg.stateful # "None" => dlg.stateful = expected

\* all three drivers have run on a dialogue in which each marker occurs,
\* but only in the turns of the other role
C13_Witness ==
    /\ ArchitectMarkers = {"AGREED"}
    /\ CoderMarkers = {"CONSENSUS"}
    /\ dlg.dynamic = "False"
    /\ dlg.standalone = "False"
    /\ dlg.stateful = "False"

(***************************************************************************)
(* C14: when the transcript written by the orchestrator's dialogue is      *)
(* assessed and neither architect turn contains CONSENSUS, the assessed    *)
(* dialogue_consensus is false, whatever the coder's turns contain.        *)
(***************************************************************************)
C14_NoArchitectConsensus ==
    (/\ dlg.dynamic # "None"
     /\ dlg.standalone = "None"
     /\ assessed # NotAssessed
     /\ assessed.has_conversation
     /\ "CONSENSUS" \notin ArchitectMarkers)
        => ~assessed.dialogue_consensus

\* the three answers offered when an audit has failed
FailedAuditOptionSet ==
    {"fix_implementation", "revise_architecture", "accept_violations"}

\* the options an action carries, as a set
OptionSet(action) ==
    {action.inputs.options[i] : i \in 1..Len(action.inputs.options)}

\* code and an audit log exist and the latest audit text contains FAIL
LatestAuditFails ==
    /\ assessed.has_code
    /\ assessed.has_audit_log
    /\ "FAIL" \in LatestByMtime(fs.audit_logs).markers

(***************************************************************************)
(* C15, as stated: for a state with has_code and has_audit_log whose       *)
(* latest audit text contains FAIL, the decided action is ASK_HUMAN with   *)
(* exactly the options fix_implementation, revise_architecture,            *)
(* accept_violations.                                                      *)
(***************************************************************************)
C15_AuditFailAsksHuman ==
    (paction # NoAction /\ LatestAuditFails)
        => /\ paction.action_type = "ASK_HUMAN"
           /\ Len(paction.inputs.options) = 3
           /\ OptionSet(paction) = FailedAuditOptionSet

(***************************************************************************)
(* C15, amended: for a state in which the requirements, a transcript with  *)
(* consensus and both documents are present, with has_code and             *)
(* has_audit_log, whose latest audit text contains FAIL, the decided       *)
(* action is ASK_HUMAN with exactly the options fix_implementation,        *)
(* revise_architecture, accept_violations.                                 *)
(***************************************************************************)
C15_AuditFailAsksHumanAfterStages ==
    (/\ paction # NoAction
     /\ LatestAuditFails
     /\ assessed.has_requirements
     /\ assessed.has_conversation
     /\ assessed.dialogue_consensus
     /\ assessed.has_architecture_doc
     /\ assessed.has_constraints_doc)
        => /\ paction.action_type = "ASK_HUMAN"
           /\ Len(paction.inputs.options) = 3
           /\ OptionSet(paction) = FailedAuditOptionSet

\* every stage is complete and the audit log holds both markers; the
\* decision has been taken
C15_Witness ==
    /\ paction.action_type = "ASK_HUMAN"
    /\ assessed.current_phase = "FAILED"
    /\ assessed.dialogue_consensus
    /\ assessed.has_code
    /\ Len(fs.audit_logs) = 1
    /\ LatestByMtime(fs.audit_logs).markers = {"PASS", "FAIL"}

\* the audit logs that no other audit log is more recent than
MostRecentAudits ==
    {i \in 1..Len(fs.audit_logs) :
        \A j \in 1..Len(fs.audit_logs) :
            fs.audit_logs[j].mtime <= fs.audit_logs[i].mtime}

(***************************************************************************)
(* C16: the assessed audit_passed is unknown (None) when no audit log      *)
(* exists, in particular when the workspace or its logs directory is       *)
(* absent; otherwise it is true exactly when the most recently modified    *)
(* audit log contains PASS and does not contain FAIL, and false otherwise  *)
(* (both markers, or neither).                                             *)
(***************************************************************************)
C16_AuditPassedTriState ==
    assessed # NotAssessed =>
        IF "logs" \notin fs.dirs \/ fs.audit_logs = <<>>
        THEN assessed.audit_passed = "None"
        ELSE \E i \in MostRecentAudits :
                LET m == fs.audit_logs[i].markers
                IN  /\ assessed.audit_passed \in {"True", "False"}
                    /\ assessed.audit_passed = "True"
                          <=> ("PASS" \in m /\ "FAIL" \notin m)

\* the older audit log passed, the more recent one holds both markers, and
\* the assessment says the audit did not pass
C16_Witness ==
    /\ assessed # NotAssessed
    /\ Len(fs.audit_logs) = 2
    /\ \E i, j \in 1..2 :
          /\ fs.audit_logs[i].mtime < fs.audit_logs[j].mtime
          /\ fs.audit_logs[i].markers = {"PASS"}
          /\ fs.audit_logs[j].markers = {"PASS", "FAIL"}
    /\ assessed.audit_passed = "False"

(***************************************************************************)
(* C17: once RUN_AUDIT has been executed to completion, an audit log       *)
(* exists in the workspace, so that the next assessment gives COMPLETE or  *)
(* FAILED and not AUDIT again.                                             *)
(***************************************************************************)
C17_AuditLeavesArtifact ==
    (/\ iteration > 0
     /\ LastAction.action_type = "RUN_AUDIT"
     /\ exc = "none")
        => /\ fs.audit_logs # <<>>
           /\ assess_project_state(fs).current_phase \in {"COMPLETE", "FAILED"}

(***************************************************************************)
(* C18: when a call of orchestrate has ended, the action history holds     *)
(* exactly the actions that call executed, one per iteration and in the    *)
(* order of the iterations, so its length is the number of iterations      *)
(* executed and at most max_iterations; this holds for the first call on   *)
(* an instance and for a second one.                                       *)
(***************************************************************************)
C18_HistoryOfThisRun ==
    pc = "done" =>
        /\ Len(action_history) = iteration
        /\ Len(action_history) <= max_iterations
        /\ Len(run.phases) = Len(action_history)

(***************************************************************************)
(* C19: an iteration that executes ASK_HUMAN leaves the workspace as it    *)
(* found it (the same directories and files, unchanged) and the loop       *)
(* halts: the call goes on to its summary without a further iteration.     *)
(***************************************************************************)
C19_AskHumanFrame ==
    [][(/\ pc = "loop"
        /\ iteration' = iteration + 1
        /\ action_history'[Len(action_history')].action_type = "ASK_HUMAN")
         => (fs' = fs /\ exc' = "none" /\ pc' = "summary")]_vars

\* ASK_HUMAN has just been executed on a workspace whose audit failed, and
\* the call stands before its summary
C19_Witness ==
    /\ pc = "summary"
    /\ iteration > 0
    /\ LastAction.action_type = "ASK_HUMAN"
    /\ LastAction.inputs.options # <<>>
    /\ fs.audit_logs # <<>>
    /\ fs.code_files # {}

(***************************************************************************)
(* C20: during a run the workspace tree is written only by the action      *)
(* executor: every step that changes the tree is the execution of an       *)
(* action inside an iteration; the assessor, the decision engine and the   *)
(* loop driver (its set-up and its logging included) create or modify no   *)
(* file or directory of the workspace.                                     *)
(***************************************************************************)
C20_OnlyExecutorWrites ==
    [][fs' # fs =>
        (/\ pc = "loop"
         /\ iteration' = iteration + 1
         /\ Len(action_history') = Len(action_history) + 1)]_vars

(***************************************************************************)
(* C21: every successful execution of the orchestrator's dialogue adds     *)
(* exactly one transcript file to conversation/ and leaves every           *)
(* transcript that was there before in place and unchanged, also when two  *)
(* executions finish within the same clock second.                         *)
(***************************************************************************)
C21_DialogueAddsOneTranscript ==
    [][dlg'.dialogues = dlg.dialogues + 1 =>
        /\ Len(fs'.conversation) = Len(fs.conversation) + 1
        /\ \A i \in 1..Len(fs.conversation) :
              fs'.conversation[i] = fs.conversation[i]]_vars

\* every earlier stage is complete and an audit log exists, but the audit
\* result is unknown: no phase rule names this state
Unclassified(s) ==
    /\ s.has_requirements
    /\ s.has_conversation /\ s.dialogue_consensus
    /\ s.has_architecture_doc /\ s.has_constraints_doc
    /\ s.has_code
    /\ s.has_audit_log
    /\ s.audit_passed = "None"

(***************************************************************************)
(* C22: for a state that the phase rules cannot classify, the decision     *)
(* taken after phase inference is ASK_HUMAN with the "Unknown state"       *)
(* reason, which is a halting action, and not the request for              *)
(* requirements made for a project that has none.                          *)
(***************************************************************************)
C22_UnclassifiedEscalated ==
    (pphase # "unset" /\ paction # NoAction /\ Unclassified(pstate))
        => /\ paction.action_type = "ASK_HUMAN"
           /\ paction.action_type \in HaltingActions
           /\ paction.reason = <<"Unknown state: ">> \o StateRepr(pstate)
                                 \o <<". Human intervention required.">>
           /\ paction.inputs.keys = {}
           /\ paction.inputs.options = <<>>

\* the phase of an unclassified state has been inferred, as UNINITIALIZED,
\* and the decision taken
C22_Witness ==
    /\ Unclassified(pstate)
    /\ pphase = "UNINITIALIZED"
    /\ pstate.current_phase = "UNINITIALIZED"
    /\ paction.action_type = "ASK_HUMAN"

(***************************************************************************)
(* Specification of the orchestrator's dialogue call by call: an iteration *)
(* assesses, decides RUN_DIALOGUE and enters _execute_dialogue             *)
(* (dlg.step = "dialogue"), which awaits four query_agent calls one after  *)
(* the other and then saves the transcript.  dlg.calls are the calls       *)
(* issued so far: the role asked, the earlier text placed in the prompt,   *)
(* and the response once it has been received.                             *)
(***************************************************************************)
TurnRole == <<"architect", "coder", "architect", "coder">>

\* the text of the project description read from requirements.md
RequirementsText == {}

Pending == [received |-> FALSE, text |-> {}]

CallInFlight ==
    /\ dlg.calls # <<>>
    /\ ~dlg.calls[Len(dlg.calls)].response.received

InitTurns ==
    /\ fs = OnlyRequirements
    /\ dlg = NoDialogue
    /\ tcall = NoToolCall
    /\ api = NoApiCall
    /\ tstate = ToolNotAssessed
    /\ assessed = NotAssessed
    /\ pstate = DefaultState
    /\ pphase = "unset"
    /\ paction = NoAction
    /\ perm_ws = <<>>
    /\ perm_log = <<>>
    /\ clients = [r \in Roles |-> "None"]
    /\ action_history = <<>>
    /\ current_state = NotAssessed
    /\ pc = "idle"
    /\ iteration = 0
    /\ max_iterations = 0
    /\ exc = "none"
    /\ run = NoRun

\* one iteration up to the first query: assess, decide, execute_action,
\* the two clients, the requirements (a resume action has no
\* requirements_path and raises here)
StartDialogue ==
    /\ dlg.step = "idle"
    /\ dlg.dialogues < MaxDialogues
    /\ LET state == assess_project_state(fs)
           action == decide_next_action(state)
       IN  /\ action.action_type = "RUN_DIALOGUE"
           /\ assessed' = state
           /\ current_state' = state
           /\ action_history' = Append(action_history, action)
           /\ clients' = [clients EXCEPT !["architect"] = "connected",
                                         !["coder"] = "connected"]
           /\ dlg' = IF "requirements_path" \in action.inputs.keys
                     THEN [dlg EXCEPT !.step = "dialogue", !.calls = <<>>]
                     ELSE [dlg EXCEPT !.dialogues = @ + 1, !.calls = <<>>]
    /\ UNCHANGED <<tstate, api, tcall, fs, pc, iteration, max_iterations, exc, run, phase_vars,
                   perm_vars>>

\* A faulty variant that sends the next query without awaiting the response
\* to the previous one.
IssueQuery_no_wait ==
    /\ dlg.step = "dialogue"
    /\ Len(dlg.calls) < 4
    /\ LET k == Len(dlg.calls) + 1
           input == IF k = 1 THEN RequirementsText
                    ELSE dlg.calls[k - 1].response.text
       IN  dlg' = [dlg EXCEPT !.calls = Append(@,
                      [role |-> TurnRole[k], input |-> input,
                       response |-> Pending])]
    /\ UNCHANGED <<tstate, api, tcall, fs_vars, phase_vars, perm_vars, orch_vars>>

\* await query_agent(client, name, prompt), up to client.query(prompt): the
\* prompt of turn 1 holds the requirements, that of a later turn the
\* response to the turn before
IssueQuery ==
    /\ dlg.step = "dialogue"
    /\ Len(dlg.calls) < 4
    /\ ~CallInFlight
    /\ LET k == Len(dlg.calls) + 1
           input == IF k = 1 THEN RequirementsText
                    ELSE dlg.calls[k - 1].response.text
       IN  dlg' = [dlg EXCEPT !.calls = Append(@,
                      [role |-> TurnRole[k], input |-> input,
                       response |-> Pending])]
    /\ UNCHANGED <<tstate, api, tcall, fs_vars, phase_vars, perm_vars, orch_vars>>

\* query_agent returns the collected response text
ReceiveResponse ==
    /\ dlg.step = "dialogue"
    /\ CallInFlight
    /\ \E text \in SUBSET ConsensusMarkers :
          dlg' = [dlg EXCEPT !.calls[Len(dlg.calls)].response =
                               [received |-> TRUE, text |-> text]]
    /\ UNCHANGED <<tstate, api, tcall, fs_vars, phase_vars, perm_vars, orch_vars>>

\* the awaited query raises: the exception leaves _execute_dialogue
QueryRaises ==
    /\ dlg.step = "dialogue"
    /\ CallInFlight
    /\ dlg' = [dlg EXCEPT !.step = "idle", !.dialogues = @ + 1,
                          !.calls = SubSeq(@, 1, Len(@) - 1)]
    /\ UNCHANGED <<tstate, api, tcall, fs_vars, phase_vars, perm_vars, orch_vars>>

\* after the fourth response: has_consensus and the transcript
SaveTranscript ==
    /\ dlg.step = "dialogue"
    /\ Len(dlg.calls) = 4
    /\ ~CallInFlight
    /\ LET t == [k \in 1..4 |-> dlg.calls[k].response.text]
       IN  /\ fs' = [fs EXCEPT
                       !.dirs = @ \cup {"workspace", "conversation"},
                       !.conversation = WriteFile(@,
                           DialogueFile(fs, dlg.now, t[1], t[2], t[3], t[4]))]
           /\ dlg' = [dlg EXCEPT
                        !.step = "idle",
                        !.dialogues = @ + 1,
                        !.turns = t,
                        !.dynamic =
                            PyBool(HasConsensus(t[1], t[2], t[3], t[4]))]
    /\ UNCHANGED <<tstate, api, tcall, assessed, phase_vars, perm_vars, orch_vars>>

NextTurns ==
    \/ StartDialogue
    \/ IssueQuery
    \/ ReceiveResponse
    \/ QueryRaises
    \/ SaveTranscript

SpecTurns == InitTurns /\ [][NextTurns]_vars

(***************************************************************************)
(* C23: no two collaborator calls and no two actions overlap.  At most one *)
(* call is awaiting its response, and it is the last one issued; the calls *)
(* of a dialogue go to architect, coder, architect, coder in this order,   *)
(* the first with the requirements and each later one with the response to *)
(* the call before it, which had been received when the call was issued;   *)
(* and an assessment is made only while no action is being executed.       *)
(***************************************************************************)
C23_NoOverlap ==
    /\ [](\A k \in 1..Len(dlg.calls) :
            /\ k <= 4
            /\ dlg.calls[k].role = TurnRole[k]
            /\ k < Len(dlg.calls) => dlg.calls[k].response.received
            /\ k = 1 => dlg.calls[k].input = RequirementsText
            /\ k > 1 => dlg.calls[k].input = dlg.calls[k - 1].response.text)
    /\ [][assessed' # assessed
            => (dlg.step = "idle" /\ ~CallInFlight)]_vars
    /\ [][fs' # fs
            => (Len(dlg.calls) = 4 /\ ~CallInFlight)]_vars

\* the fourth call is awaiting its response; the three earlier responses
\* all differ from the text that followed them
C23_Witness ==
    /\ Len(dlg.calls) = 4
    /\ CallInFlight
    /\ dlg.calls[1].response.text = {"CONSENSUS"}
    /\ dlg.calls[2].response.text = {"AGREED"}
    /\ dlg.calls[3].response.text = {"CONSENSUS", "AGREED"}
    /\ dlg.dialogues = 0

RoleAction(r) ==
    CASE r \in {"architect", "coder"} -> "RUN_DIALOGUE"
      [] r = "docs" -> "SYNTHESIZE_DOCS"
      [] OTHER -> "RUN_AUDIT"

(***************************************************************************)
(* C25: in one call of orchestrate at most one architect, one coder and    *)
(* one docs client is created: the client of a role is created in the      *)
(* first iteration of the call that executes an action of that role        *)
(* (unless that very creation raises), no later action of the role creates *)
(* another, and no client is created for a role of which no action is      *)
(* executed.  run.created[r] lists the iterations in which a client of     *)
(* role r was created.                                                     *)
(***************************************************************************)
C25_OneClientPerRole ==
    \A r \in {"architect", "coder", "docs"} :
        LET uses == {i \in 1..Len(RunActions) :
                        RunActions[i].action_type = RoleAction(r)}
        IN  /\ Len(run.created[r]) <= 1
            /\ uses = {} => run.created[r] = <<>>
            /\ uses # {} =>
                  LET first == CHOOSE i \in uses : \A j \in uses : i <= j
                  IN  \/ run.created[r] = <<first>>
                      \/ /\ run.created[r] = <<>>
                         /\ first = Len(RunActions)
                         /\ exc = "collaborator"

(***************************************************************************)
(* The permission callback of the implementation test,                     *)
(* tests/test_implementation.py allow_code_writes, which takes file_path   *)
(* relative to the working directory of the agent.                         *)
(***************************************************************************)
allow_code_writes(tool_name, file_path) ==
    \* Always allow read operations
    IF tool_name \in {"Read", "Glob", "Grep"} THEN "allow"
    \* Allow writes only to code/ directory
    ELSE IF tool_name \in {"Write", "Edit"} THEN
        IF \/ StartsWith(file_path, <<"code", "/">>)
           \/ StartsWith(file_path, <<".", "/", "code", "/">>)
        THEN "allow"
        ELSE "deny"
    \* Deny all other tools
    ELSE "deny"

\* file_path values a tool request of the test may carry
TestFilePaths ==
    {<<>>,
     <<"code", "/", "x">>,
     <<".", "/", "code", "/", "x">>,
     <<"code", "/", "src", "/", "..", "/", "x">>,
     <<"code", "/", "..", "/", "x">>,
     <<".", "/", "code", "/", "..", "/", "x">>,
     <<"code", "/", "..", "/", "..", "/", "etc", "/", "passwd">>,
     <<"code", "_other", "/", "x">>,
     <<"architecture", "/", "x">>,
     <<"x">>,
     <<"/", "tmp", "/", "code", "/", "x">>,
     <<"/", "etc", "/", "passwd">>}

InitTestPerm ==
    /\ perm_ws = <<".">>
    /\ perm_log = <<>>
    /\ pstate = DefaultState
    /\ pphase = "unset"
    /\ paction = NoAction
    /\ fs = NoWorkspace
    /\ assessed = DefaultState
    /\ OrchestratorInit
    /\ dlg = NoDialogue
    /\ tcall = NoToolCall
    /\ api = NoApiCall
    /\ tstate = ToolNotAssessed

\* The SDK asks can_use_tool for one tool request of the test's coder agent
TestPermissionRequest ==
    /\ Len(perm_log) < MaxRequests
    /\ \E tool \in ToolNames, path \in TestFilePaths :
          perm_log' = Append(perm_log,
              [tool |-> tool, file_path |-> path,
               result |-> allow_code_writes(tool, path)])
    /\ UNCHANGED <<tstate, api, tcall, dlg, perm_ws, phase_vars, fs_vars, orch_vars>>

NextTestPerm == TestPermissionRequest

SpecTestPerm == InitTestPerm /\ [][NextTestPerm]_vars

\* the directories a relative path leads through, "." and ".." resolved
\* (<<"..">> once it has left the working directory); "_other" is a suffix
\* of the name before it
RECURSIVE Resolve(_, _, _)
Resolve(path, i, stack) ==
    IF i > Len(path) THEN stack
    ELSE LET tok == path[i]
             top == Len(stack)
         IN  IF stack = <<"..">> THEN stack
             ELSE IF tok \in {"/", "."} THEN Resolve(path, i + 1, stack)
             ELSE IF tok = ".."
             THEN IF top = 0 THEN <<"..">>
                  ELSE Resolve(path, i + 1, SubSeq(stack, 1, top - 1))
             ELSE IF tok = "_other"
             THEN Resolve(path, i + 1,
                          SubSeq(stack, 1, top - 1) \o <<"code_other">>)
             ELSE Resolve(path, i + 1, Append(stack, tok))

\* the target of file_path is a file inside the code/ directory of the
\* working directory
TargetInsideCode(path) ==
    /\ path # <<>>
    /\ path[1] # "/"
    /\ LET r == Resolve(path, 1, <<>>)
       IN  Len(r) >= 2 /\ r[1] = "code"

(***************************************************************************)
(* C26: allow_code_writes allows a Write or Edit only to a file inside     *)
(* code/: every request whose target lies outside code/ is denied, also a  *)
(* path that begins with code/ and leaves it through ".." and an absolute  *)
(* path; Read, Glob and Grep are always allowed; every other tool is       *)
(* denied.                                                                 *)
(***************************************************************************)
C26_TestWritesOnlyInCode ==
    \A i \in 1..Len(perm_log) :
        LET e == perm_log[i]
        IN  /\ e.tool \in {"Read", "Glob", "Grep"} => e.result = "allow"
            /\ e.tool \notin {"Read", "Glob", "Grep", "Write", "Edit"}
                  => e.result = "deny"
            /\ (e.tool \in {"Write", "Edit"}
                  /\ ~TargetInsideCode(e.file_path))
                  => e.result = "deny"


(***************************************************************************)
(* The orchestrator tools that spawn an agent script as a subprocess       *)
(* (orchestrator_tools.py): run_architectural_dialogue and                  *)
(* synthesize_documentation.                                                *)
(***************************************************************************)
SubprocessTools == {"run_architectural_dialogue", "synthesize_documentation"}

\* result.stdout of the child: whether other text was printed, whether a
\* JSON document was printed, and that document
NoJson == [text |-> FALSE, doc |-> FALSE, json |-> NoResult]

\* main() of an agent script prints its result as JSON, after whatever the
\* run has printed before (`text`), and exits with 0 when result["success"]
\* and with 1 otherwise
AgentMain(tag, result, text) ==
    [tag |-> tag,
     raises |-> "none",
     returncode |-> IF result.success THEN 0 ELSE 1,
     stdout |-> [text |-> text, doc |-> TRUE, json |-> result]]

\* what subprocess.run can do with an agent script: fail to start it, kill
\* it at the timeout, or complete. A script that completes its work has
\* created its agents, and create_architect_agent / create_coder_agent /
\* create_docs_agent print two lines each to stdout; a script fails before
\* it creates an agent (nothing but the JSON is printed) or after; the
\* interpreter can crash (traceback on stderr, no JSON)
SubprocessOutcomes ==
    {[tag |-> "spawn_error", raises |-> "OSError", returncode |-> 0,
      stdout |-> NoJson],
     [tag |-> "timeout", raises |-> "TimeoutExpired", returncode |-> 0,
      stdout |-> NoJson],
     AgentMain("completed", [success |-> TRUE, error |-> "absent"], TRUE),
     AgentMain("failed_early", [success |-> FALSE, error |-> "str(e)"],
               FALSE),
     AgentMain("failed", [success |-> FALSE, error |-> "str(e)"], TRUE),
     [tag |-> "crash", raises |-> "none", returncode |-> 1,
      stdout |-> NoJson]}

\* json.loads: the parsed document, or JSONDecodeError
json_loads(stdout) ==
    IF stdout.doc /\ ~stdout.text
    THEN [exc |-> "none", value |-> stdout.json]
    ELSE [exc |-> "JSONDecodeError", value |-> NoResult]

\* the body of the try block: subprocess.run, then the parse of its stdout;
\* the inner bare except turns a failed parse after a non-zero exit into a
\* failure result
SpawnAndParse(o) ==
    IF o.raises # "none"
    THEN [exc |-> o.raises, value |-> NoResult]
    ELSE IF o.returncode = 0
         THEN json_loads(o.stdout)
         ELSE LET error_json == json_loads(o.stdout)
              IN  IF error_json.exc = "none"
                  THEN error_json
                  ELSE [exc |-> "none",
                        value |-> [success |-> FALSE,
                                   error |-> "Agent subprocess failed"]]

\* the try statement without its "except Exception" clause
AgentSubprocess_timeout_only(o) ==
    LET t == SpawnAndParse(o)
    IN  IF t.exc = "none"
        THEN [raised |-> "none", result |-> t.value]
        ELSE IF t.exc = "TimeoutExpired"
             THEN [raised |-> "none",
                   result |-> [success |-> FALSE,
                               error |-> "agent timed out after 5 minutes"]]
             ELSE [raised |-> t.exc, result |-> NoResult]

\* the try statement of both tools: except subprocess.TimeoutExpired, then
\* except Exception
AgentSubprocess(o) ==
    LET t == SpawnAndParse(o)
    IN  IF t.exc = "none"
        THEN [raised |-> "none", result |-> t.value]
        ELSE IF t.exc = "TimeoutExpired"
             THEN [raised |-> "none",
                   result |-> [success |-> FALSE,
                               error |-> "agent timed out after 5 minutes"]]
             ELSE [raised |-> "none",
                   result |-> [success |-> FALSE,
                               error |-> "Failed to spawn agent"]]

\* the check each tool makes before it spawns anything: requirements.md
\* exists, resp. conversation/ exists and holds a *.md file
ToolPrecondition(name, tree) ==
    IF name = "run_architectural_dialogue"
    THEN tree.requirements
    ELSE "conversation" \in tree.dirs /\ Len(tree.conversation) > 0

\* what the agent script leaves in the workspace when it exits with 0: the
\* dialogue's transcript, resp. the two documents
AgentScriptWrites(name, tree) ==
    IF name = "run_architectural_dialogue"
    THEN run_dialogue(tree, dlg.now, {}, {}, ConsensusMarkers, {"AGREED"}).fs
    ELSE [tree EXCEPT !.dirs = @ \cup {"architecture"},
                      !.architecture_doc = TRUE, !.constraints_doc = TRUE]

InitTools ==
    /\ fs \in ProjectTrees
    /\ tcall = NoToolCall
    /\ api = NoApiCall
    /\ tstate = ToolNotAssessed
    /\ assessed = NotAssessed
    /\ pstate = DefaultState
    /\ pphase = "unset"
    /\ paction = NoAction
    /\ perm_ws = <<>>
    /\ perm_log = <<>>
    /\ OrchestratorInit
    /\ dlg = NoDialogue

\* a tool is called: it returns at once when its precondition fails
\* (run_architectural_dialogue has created the workspace directory by then)
CallTool ==
    /\ tcall.step \in {"idle", "returned"}
    /\ \E name \in SubprocessTools :
          LET tree == IF name = "run_architectural_dialogue"
                      THEN [fs EXCEPT !.dirs = @ \cup {"workspace"}]
                      ELSE fs
          IN  /\ fs' = tree
              /\ tcall' =
                   IF ToolPrecondition(name, tree)
                   THEN [NoToolCall EXCEPT !.name = name,
                                           !.step = "spawning"]
                   ELSE [NoToolCall EXCEPT
                           !.name = name, !.step = "returned",
                           !.result = [success |-> FALSE,
                                       error |-> "precondition not found"]]
    /\ UNCHANGED <<tstate, api, dlg, assessed, phase_vars, perm_vars, orch_vars>>

\* subprocess.run with the agent script, and the tool's handling of it
SubprocessRun ==
    /\ tcall.step = "spawning"
    /\ \E o \in SubprocessOutcomes :
          LET r == AgentSubprocess(o)
          IN  /\ tcall' = [tcall EXCEPT
                             !.spawns = @ + 1, !.outcome = o.tag,
                             !.parsed = (json_loads(o.stdout).exc = "none"),
                             !.raised = r.raised, !.result = r.result,
                             !.step = IF r.raised = "none" THEN "returned"
                                      ELSE "raised"]
              /\ fs' = IF o.tag = "completed"
                       THEN AgentScriptWrites(tcall.name, fs)
                       ELSE fs
    /\ UNCHANGED <<tstate, api, dlg, assessed, phase_vars, perm_vars, orch_vars>>

NextTools == CallTool \/ SubprocessRun

SpecTools == InitTools /\ [][NextTools]_vars

FailedOutcomes ==
    {"spawn_error", "timeout", "failed_early", "failed", "crash"}

\* C27: a tool call never raises; after a spawn error, a timeout, a non-zero
\* exit or unparsable output it returns success = false with an error text;
\* it spawns the agent at most once; and when its precondition is missing it
\* returns that failure without having spawned anything.
C27_ToolCallNeverRaises ==
    /\ tcall.step # "raised"
    /\ tcall.raised = "none"
    /\ tcall.spawns <= 1
    /\ (/\ tcall.step = "returned"
        /\ tcall.spawns = 1
        /\ tcall.outcome \in FailedOutcomes \/ ~tcall.parsed)
         => ~tcall.result.success /\ tcall.result.error # "absent"
    /\ (tcall.step = "returned" /\ ~ToolPrecondition(tcall.name, fs))
         => /\ tcall.spawns = 0
            /\ ~tcall.result.success
            /\ tcall.result.error # "absent"

C27_Witness ==
    /\ tcall.step = "returned"
    /\ tcall.name = "synthesize_documentation"
    /\ tcall.outcome = "crash"
    /\ ~tcall.parsed
    /\ tcall.spawns = 1
    /\ ~tcall.result.success

\* what the assessed state must show for a stage action of the given type
StagePreconditions(s, type) ==
    LET dialogue_done == /\ s.has_requirements
                         /\ s.has_conversation
                         /\ s.dialogue_consensus
        docs_done == /\ dialogue_done
                     /\ s.has_architecture_doc
                     /\ s.has_constraints_doc
        code_done == docs_done /\ s.has_code
    IN  /\ type = "SYNTHESIZE_DOCS" => dialogue_done
        /\ type = "IMPLEMENT_CODE" => docs_done
        /\ type = "RUN_AUDIT" => code_done
        /\ type = "COMPLETE" =>
              code_done /\ s.has_audit_log /\ s.audit_passed = "True"

\* C28: in every orchestrate call the action executed in an iteration has
\* its preconditions in the state assessed in that iteration (requirements
\* and consensus for SYNTHESIZE_DOCS, also both documents for
\* IMPLEMENT_CODE, also code for RUN_AUDIT, also a passed audit log for
\* COMPLETE), and an iteration executes exactly one action.
C28_StageActionsHavePreconditions ==
    /\ [](iteration >= 1 =>
            /\ StagePreconditions(current_state, LastAction.action_type)
            /\ Len(run.phases) = iteration
            /\ LastAction = decide_next_action(current_state))
    /\ [][/\ iteration' = iteration + 1 =>
               /\ Len(action_history') = Len(action_history) + 1
               /\ current_state' = assess_project_state(fs)
          /\ iteration' # iteration + 1 =>
               action_history' = action_history]_vars

C28_Witness ==
    /\ iteration = 2
    /\ RunActions[1].action_type = "SYNTHESIZE_DOCS"
    /\ RunActions[2].action_type = "IMPLEMENT_CODE"
    /\ current_state.has_architecture_doc
    /\ current_state.has_constraints_doc

\* C29: when an IMPLEMENT_CODE action ends without an exception and its
\* collaborator has written a new file beneath code/, whatever its
\* extension, the next assessment of the workspace has has_code = true and
\* the phase AUDIT, so that IMPLEMENT_CODE is not decided again.
C29_ImplementationAdvances ==
    [][(/\ iteration' = iteration + 1
        /\ action_history'[Len(action_history')].action_type
             = "IMPLEMENT_CODE"
        /\ exc' = "none"
        /\ run'.impl_connects = run.impl_connects + 1
        /\ fs'.code_files # fs.code_files)
       => LET next == assess_project_state(fs')
          IN  /\ next.has_code
              /\ next.current_phase = "AUDIT"
              /\ decide_next_action(next).action_type # "IMPLEMENT_CODE"]_vars

(***************************************************************************)
(* SYNTHESIZE_DOCS on workspaces whose dialogue has ended in consensus,    *)
(* with or without earlier versions of the two documents                   *)
(***************************************************************************)
DocsTrees ==
    {Tree(FALSE, TRUE,
          NamedTranscripts(<<[mtime |-> 0, markers |-> ConsensusMarkers]>>),
          arch, cons, code, FALSE, audits) :
        arch \in BOOLEAN, cons \in BOOLEAN, code \in SUBSET CodeExts,
        audits \in {<<>>, <<[mtime |-> 0, markers |-> {"PASS"}]>>,
                    <<[mtime |-> 0, markers |-> {"FAIL"}]>>}}

InitDocs ==
    /\ fs \in DocsTrees
    /\ assessed = NotAssessed
    /\ pstate = DefaultState
    /\ pphase = "unset"
    /\ paction = NoAction
    /\ perm_ws = <<>>
    /\ perm_log = <<>>
    /\ OrchestratorInit
    /\ dlg = NoDialogue
    /\ tcall = NoToolCall
    /\ api = NoApiCall
    /\ tstate = ToolNotAssessed

\* orchestrate calls in which the loop decides SYNTHESIZE_DOCS
NextDocs ==
    \/ OrchestrateStart
    \/ IterateDocsSynthesis
    \/ WriteSummary
    \/ CleanupAgents

SpecDocs == InitDocs /\ [][NextDocs]_vars

DocsSynthesisStep ==
    /\ iteration' = iteration + 1
    /\ action_history'[Len(action_history')].action_type = "SYNTHESIZE_DOCS"

\* C30: a SYNTHESIZE_DOCS that ends without an exception leaves both
\* documents and the next assessed phase is past DOCUMENTATION_SYNTHESIS;
\* one that has saved ARCHITECTURE.md and then fails in its second docs
\* call leaves ARCHITECTURE.md without CONSTRAINTS.md, and the workspace is
\* then assessed as DOCUMENTATION_SYNTHESIS, not as IMPLEMENTATION.
C30_DocsSynthesisOutcome ==
    [][/\ (DocsSynthesisStep /\ exc' = "none") =>
             /\ fs'.architecture_doc
             /\ fs'.constraints_doc
             /\ assess_project_state(fs').current_phase \notin
                  {"UNINITIALIZED", "ARCHITECTURAL_DIALOGUE",
                   "DOCUMENTATION_SYNTHESIS"}
       /\ (/\ DocsSynthesisStep
           /\ exc' = "collaborator"
           /\ ~fs.architecture_doc
           /\ fs'.architecture_doc) =>
             /\ ~fs'.constraints_doc
             /\ assess_project_state(fs').current_phase
                  = "DOCUMENTATION_SYNTHESIS"]_vars

(***************************************************************************)
(* Termination of orchestrate: every step of a call that has begun is      *)
(* taken eventually, since every collaborator call returns or raises        *)
(***************************************************************************)
\* an empty workspace, a workspace whose dialogue has been held (with or
\* without consensus), and a workspace taken through every stage to a
\* passed audit
TerminationTrees ==
    {NoWorkspace} \cup
    {t \in ProjectTrees :
        /\ t.requirements /\ t.conversation # <<>>
        /\ \/ /\ ~t.architecture_doc
              /\ t.code_files = {}
              /\ t.audit_logs = <<>>
           \/ /\ t.architecture_doc
              /\ t.code_files # {}
              /\ t.audit_logs # <<>>
              /\ t.audit_logs[1].markers = {"PASS"}}

InitLive ==
    /\ fs \in TerminationTrees
    /\ assessed = NotAssessed
    /\ pstate = DefaultState
    /\ pphase = "unset"
    /\ paction = NoAction
    /\ perm_ws = <<>>
    /\ perm_log = <<>>
    /\ OrchestratorInit
    /\ dlg = NoDialogue
    /\ tcall = NoToolCall
    /\ api = NoApiCall
    /\ tstate = ToolNotAssessed

\* the steps inside one orchestrate call
OrchestrateStep ==
    \/ IterateDialogue
    \/ IterateDocsSynthesis
    \/ IterateImplementation
    \/ IterateAudit
    \/ IterateAskHuman
    \/ IterateComplete
    \/ WriteSummary
    \/ CleanupAgents

NextLive == OrchestrateStart \/ OrchestrateStep

SpecLive == InitLive /\ [][NextLive]_vars /\ WF_vars(OrchestrateStep)

\* C31: a call of orchestrate with max_iterations = N ends (returns or
\* raises) and never runs more than N iterations; with N = 0 it executes no
\* action, reports that the maximum was reached and runs the cleanup.
C31_OrchestrateTerminates ==
    /\ (pc \in {"loop", "summary", "cleanup"}) ~> (pc = "done")
    /\ [](/\ iteration <= max_iterations
          /\ Len(run.phases) = iteration
          /\ pc = "done" => run.outcome \in {"returned", "raised"}
          /\ (pc = "done" /\ max_iterations = 0) =>
                /\ run.phases = <<>>
                /\ run.summary /\ run.max_reached
                /\ run.outcome = "returned")
    /\ [][(pc \in {"loop", "summary", "cleanup"} /\ max_iterations = 0)
            => action_history' = action_history]_vars

C31_Witness ==
    /\ pc = "done"
    /\ max_iterations = 0
    /\ run.max_reached
    /\ run.outcome = "returned"

AllStagesDone(s) ==
    /\ s.has_requirements
    /\ s.has_conversation
    /\ s.dialogue_consensus
    /\ s.has_architecture_doc
    /\ s.has_constraints_doc
    /\ s.has_code
    /\ s.has_audit_log

\* C32: a state assessed as COMPLETE has requirements, a conversation with
\* consensus, both documents, code and an audit log, and audit_passed is
\* true; a state assessed as FAILED has the same facts and audit_passed is
\* false.
C32_TerminalPhasesHaveAllFacts ==
    assessed # NotAssessed =>
        /\ assessed.current_phase = "COMPLETE" =>
              AllStagesDone(assessed) /\ assessed.audit_passed = "True"
        /\ assessed.current_phase = "FAILED" =>
              AllStagesDone(assessed) /\ assessed.audit_passed = "False"

C32_Witness ==
    /\ assessed # NotAssessed
    /\ assessed.current_phase = "FAILED"
    /\ AllStagesDone(assessed)
    /\ current_state # NotAssessed
    /\ current_state.current_phase = "FAILED"

\* the iteration now executed sends its first query, which goes through
\* the client of role r (the architect opens a dialogue): the action is
\* the role's, every client it needs exists, and the dialogue has its
\* requirements
QuerySent(r) ==
    /\ iteration' = iteration + 1
    /\ LET action == action_history'[Len(action_history')]
       IN  /\ action.action_type = RoleAction(r)
           /\ clients'[r] # "None"
           /\ r = "architect" =>
                 /\ clients'["coder"] # "None"
                 /\ "requirements_path" \in action.inputs.keys
                 /\ fs.requirements

\* C33: no query goes through a client that cleanup_agents has
\* disconnected: when an iteration uses a role whose client was
\* disconnected at the end of an earlier call, that client is created anew
\* first.
C33_NoQueryAfterDisconnect ==
    [][\A r \in {"architect", "docs"} :
          (QuerySent(r) /\ clients[r] = "disconnected") =>
              /\ clients'[r] = "connected"
              /\ r \in run'.connected]_vars

\* the last iteration was a RUN_DIALOGUE that ended without an exception
\* and its transcript records consensus
DialogueWroteConsensus ==
    /\ iteration >= 1
    /\ LastAction.action_type = "RUN_DIALOGUE"
    /\ exc = "none"
    /\ \E i \in 1..Len(fs.conversation) :
          /\ fs.conversation[i].name = dlg.now
          /\ fs.conversation[i].header = "YES"

\* C34: after a RUN_DIALOGUE whose executor found consensus and wrote the
\* transcript with 'Consensus: YES', an assessment of the workspace has
\* dialogue_consensus = true, its phase is DOCUMENTATION_SYNTHESIS or later
\* and RUN_DIALOGUE is not decided.
C34_ConsensusSeenByAssessor ==
    DialogueWroteConsensus =>
        LET next == assess_project_state(fs)
        IN  /\ next.has_conversation
            /\ next.dialogue_consensus
            /\ next.current_phase \notin
                 {"UNINITIALIZED", "ARCHITECTURAL_DIALOGUE"}
            /\ decide_next_action(next).action_type # "RUN_DIALOGUE"

C34_Witness ==
    /\ DialogueWroteConsensus
    /\ pc = "loop"
    /\ assess_project_state(fs).current_phase = "DOCUMENTATION_SYNTHESIS"

(***************************************************************************)
(* The HTTP workflow (orchestration.py): run_architectural_dialogue_api,   *)
(* synthesize_documentation_api and run_full_workflow                       *)
(***************************************************************************)
ApiEndpoints ==
    <<"architect/propose", "coder/evaluate", "architect/respond",
      "coder/finalize">>

ApiRoles == <<"Architect", "Coder", "Architect", "Coder">>

\* the markers the reply of a turn can hold: the architect's consensus
\* signal, the coder's agreement and, in its final turn, its approval
ApiReplies(turn) ==
    IF turn = 4 THEN SUBSET {"AGREED", "APPROVED"}
    ELSE IF turn = 2 THEN SUBSET {"AGREED"}
    ELSE SUBSET {"CONSENSUS"}

\* coder_server: approved = "AGREED" in response or "APPROVED" in response
finalize_architecture(response) ==
    "AGREED" \in response \/ "APPROVED" \in response

\* {"success": False, "error": ...}
ApiFailure ==
    [returned |-> TRUE, has_success |-> TRUE, success |-> FALSE,
     has_error |-> TRUE, consensus_reached |-> FALSE]

\* {"success": True, ...}
ApiSuccess(consensus) ==
    [returned |-> TRUE, has_success |-> TRUE, success |-> TRUE,
     has_error |-> FALSE, consensus_reached |-> consensus]

\* the transcript of the four turns
ApiTranscript(ts, conversation, approved) ==
    [name |-> ts, mtime |-> MaxMtime,
     markers |-> UNION {conversation[i].message :
                            i \in 1..Len(conversation)},
     header |-> IF approved THEN "YES" ELSE "NO"]

\* A faulty variant of run_full_workflow that goes on after a failed
\* dialogue.
WorkflowAfterDialogue_ignores_failure(a, result) ==
    IF a.entry = "dialogue"
    THEN [a EXCEPT !.dialogue = result, !.results = result,
                   !.step = "returned"]
    ELSE [a EXCEPT !.dialogue = result,
                   !.phases_completed = Append(@, "dialogue"),
                   !.step = "docs"]

\* run_architectural_dialogue_api returns `result`: to its caller, or into
\* run_full_workflow, which returns the error or goes on to phase 2
WorkflowAfterDialogue(a, result) ==
    IF a.entry = "dialogue"
    THEN [a EXCEPT !.dialogue = result, !.results = result,
                   !.step = "returned"]
    ELSE IF ~result.success
    THEN [a EXCEPT !.dialogue = result,
                   !.results = [NoApiResult EXCEPT !.returned = TRUE,
                                                   !.has_error = TRUE],
                   !.step = "returned"]
    ELSE [a EXCEPT !.dialogue = result,
                   !.phases_completed = Append(@, "dialogue"),
                   !.step = "docs"]

\* synthesize_documentation_api returns `result` into run_full_workflow
WorkflowAfterDocs(a, result) ==
    IF ~result.success
    THEN [a EXCEPT !.documentation = result,
                   !.results = [NoApiResult EXCEPT !.returned = TRUE,
                                                   !.has_error = TRUE],
                   !.step = "returned"]
    ELSE [a EXCEPT !.documentation = result,
                   !.phases_completed = Append(@, "documentation"),
                   !.results = [NoApiResult EXCEPT !.returned = TRUE,
                                                   !.has_success = TRUE,
                                                   !.success = TRUE],
                   !.step = "returned"]

\* A faulty variant that skips a failed turn and carries on.
ApiTurn_skips_failure(a, tree, ts, ok, reply) ==
    LET turn == Len(a.requests) + 1
        sent == [a EXCEPT !.requests = Append(@, ApiEndpoints[turn])]
        said == [sent EXCEPT !.conversation =
                    IF ok THEN Append(@, [role |-> ApiRoles[turn],
                                          message |-> reply])
                    ELSE @]
    IN  IF turn < 4
        THEN [api |-> said, fs |-> tree]
        ELSE [api |-> WorkflowAfterDialogue(
                         [said EXCEPT !.saved =
                             [i \in 1..Len(said.conversation) |->
                                 said.conversation[i].role]],
                         ApiSuccess(finalize_architecture(reply))),
              fs |-> [tree EXCEPT
                        !.dirs = @ \cup {"workspace", "conversation"},
                        !.conversation = WriteFile(@,
                            ApiTranscript(ts, said.conversation,
                                finalize_architecture(reply)))]]

\* one turn of run_architectural_dialogue_api: the request, and either the
\* return of the failure from the except clause, or the reply appended to
\* the conversation; after the fourth reply the transcript is saved and the
\* result returned
ApiTurn(a, tree, ts, ok, reply) ==
    LET turn == Len(a.requests) + 1
        sent == [a EXCEPT !.requests = Append(@, ApiEndpoints[turn])]
        said == [sent EXCEPT !.conversation =
                    Append(@, [role |-> ApiRoles[turn],
                               message |-> reply])]
        approved == finalize_architecture(reply)
    IN  IF ~ok
        THEN [api |-> WorkflowAfterDialogue(sent, ApiFailure), fs |-> tree]
        ELSE IF turn < 4
        THEN [api |-> said, fs |-> tree]
        ELSE [api |-> WorkflowAfterDialogue(
                         [said EXCEPT !.saved =
                             [i \in 1..Len(said.conversation) |->
                                 said.conversation[i].role]],
                         ApiSuccess(approved)),
              fs |-> [tree EXCEPT
                        !.dirs = @ \cup {"workspace", "conversation"},
                        !.conversation = WriteFile(@,
                            ApiTranscript(ts, said.conversation, approved))]]

\* synthesize_documentation_api: no request without a transcript; one
\* request to the docs server, whose two documents are saved
synthesize_documentation_api(a, tree, ok) ==
    IF "conversation" \notin tree.dirs \/ tree.conversation = <<>>
    THEN [api |-> a, fs |-> tree, result |-> ApiFailure]
    ELSE LET sent == [a EXCEPT !.requests = Append(@, "docs/synthesize")]
         IN  IF ~ok
             THEN [api |-> sent, fs |-> tree, result |-> ApiFailure]
             ELSE [api |-> sent,
                   fs |-> [tree EXCEPT
                             !.dirs = @ \cup {"architecture"},
                             !.architecture_doc = TRUE,
                             !.constraints_doc = TRUE],
                   result |-> ApiSuccess(FALSE)]

InitApi ==
    /\ fs \in {NoWorkspace, OnlyRequirements}
    /\ assessed = NotAssessed
    /\ pstate = DefaultState
    /\ pphase = "unset"
    /\ paction = NoAction
    /\ perm_ws = <<>>
    /\ perm_log = <<>>
    /\ OrchestratorInit
    /\ dlg = NoDialogue
    /\ tcall = NoToolCall
    /\ api = NoApiCall
    /\ tstate = ToolNotAssessed

\* run_architectural_dialogue_api(project_name, requirements) is called
CallDialogueApi ==
    /\ api.step = "idle"
    /\ api' = [NoApiCall EXCEPT !.entry = "dialogue", !.step = "dialogue"]
    /\ fs' = [fs EXCEPT !.dirs = @ \cup {"workspace"}]
    /\ UNCHANGED <<tstate, tcall, dlg, assessed, phase_vars, perm_vars, orch_vars>>

\* run_full_workflow(project_name, requirements) is called: it saves the
\* requirements and enters the dialogue
CallFullWorkflow ==
    /\ api.step = "idle"
    /\ api' = [NoApiCall EXCEPT !.entry = "workflow", !.step = "dialogue"]
    /\ fs' = [fs EXCEPT !.dirs = @ \cup {"workspace"},
                        !.requirements = TRUE]
    /\ UNCHANGED <<tstate, tcall, dlg, assessed, phase_vars, perm_vars, orch_vars>>

DialogueRequest ==
    /\ api.step = "dialogue"
    /\ \E ok \in BOOLEAN, reply \in ApiReplies(Len(api.requests) + 1) :
          LET r == ApiTurn(api, fs, dlg.now, ok, reply)
          IN  api' = r.api /\ fs' = r.fs
    /\ UNCHANGED <<tstate, tcall, dlg, assessed, phase_vars, perm_vars, orch_vars>>

DocsRequest ==
    /\ api.step = "docs"
    /\ \E ok \in BOOLEAN :
          LET r == synthesize_documentation_api(api, fs, ok)
          IN  /\ api' = WorkflowAfterDocs(r.api, r.result)
              /\ fs' = r.fs
    /\ UNCHANGED <<tstate, tcall, dlg, assessed, phase_vars, perm_vars, orch_vars>>

NextApi ==
    \/ CallDialogueApi
    \/ CallFullWorkflow
    \/ DialogueRequest
    \/ DocsRequest

SpecApi == InitApi /\ [][NextApi]_vars

ArchitectSignalled ==
    \E i \in {1, 3} : /\ i <= Len(api.conversation)
                      /\ "CONSENSUS" \in api.conversation[i].message

CoderApproved ==
    \E i \in {2, 4} : /\ i <= Len(api.conversation)
                      /\ api.conversation[i].message # {}

\* C35: in the HTTP dialogue, consensus is recorded (header 'Consensus:
\* YES', consensus_reached = true) only when the architect signalled
\* consensus in one of its turns and the coder approved.
C35_ApiConsensusNeedsBoth ==
    (\/ api.dialogue.returned /\ api.dialogue.consensus_reached
     \/ \E i \in 1..Len(fs.conversation) : fs.conversation[i].header = "YES")
        => ArchitectSignalled /\ CoderApproved

\* C36: the dialogue's requests are architect/propose, coder/evaluate,
\* architect/respond, coder/finalize in this order, each made after the
\* reply to the one before; a failed request returns success = false at
\* once, with no later request and no transcript; a transcript exists only
\* after four successful turns and holds these four turns in order.
C36_ApiDialogueOrdered ==
    LET n == Len(api.requests)
    IN  /\ \A i \in 1..n : i <= 4 => api.requests[i] = ApiEndpoints[i]
        /\ \A i \in 1..Len(api.conversation) :
              api.conversation[i].role = ApiRoles[i]
        /\ ~api.dialogue.returned => Len(api.conversation) = n
        /\ (api.dialogue.returned /\ ~api.dialogue.success) =>
              /\ api.dialogue.has_success /\ api.dialogue.has_error
              /\ n <= 4
              /\ Len(api.conversation) = n - 1
              /\ api.saved = <<>>
              /\ fs.conversation = <<>>
              /\ api.results.returned
        /\ (api.saved # <<>> \/ fs.conversation # <<>>) =>
              /\ api.dialogue.returned /\ api.dialogue.success
              /\ n >= 4
              /\ Len(api.conversation) = 4
              /\ api.saved = ApiRoles
              /\ Len(fs.conversation) = 1

C36_Witness ==
    /\ api.dialogue.returned
    /\ ~api.dialogue.success
    /\ api.requests = <<"architect/propose", "coder/evaluate">>
    /\ Len(api.conversation) = 1

BothPhases == <<"dialogue", "documentation">>

DocsAttempted ==
    \/ api.step = "docs"
    \/ api.documentation.returned
    \/ \E i \in 1..Len(api.requests) : api.requests[i] = "docs/synthesize"

\* C37: run_full_workflow attempts the documentation only after the
\* dialogue returned success; phases_completed is a prefix of [dialogue,
\* documentation]; its result has success = true exactly when both phases
\* succeeded, and otherwise an error and no success key.
C37_FullWorkflowResult ==
    api.entry = "workflow" =>
        /\ api.phases_completed \in
             {<<>>, <<"dialogue">>, BothPhases}
        /\ DocsAttempted =>
              api.dialogue.returned /\ api.dialogue.success
        /\ Len(api.phases_completed) >= 1 => api.dialogue.success
        /\ api.phases_completed = BothPhases => api.documentation.success
        /\ api.results.returned =>
              /\ api.results.has_success <=>
                    (api.dialogue.success /\ api.documentation.success)
              /\ api.results.has_success <=>
                    api.phases_completed = BothPhases
              /\ api.results.has_success => api.results.success
              /\ api.results.has_error <=> ~api.results.has_success

C37_Witness ==
    /\ api.entry = "workflow"
    /\ api.results.returned
    /\ api.results.success
    /\ api.phases_completed = BothPhases
    /\ fs.architecture_doc /\ fs.constraints_doc

\* C38: a sequential driver starts the documentation synthesis only for a
\* dialogue that reached consensus; after a dialogue without consensus no
\* ARCHITECTURE.md / CONSTRAINTS.md is synthesized.
C38_DocsOnlyAfterConsensus ==
    (api.entry = "workflow" /\ (DocsAttempted \/ fs.architecture_doc))
        => api.dialogue.consensus_reached

\* C39: when the dialogue script has completed its dialogue and exited with
\* code 0, its stdout is the one JSON result document and
\* run_architectural_dialogue returns that result, with success = true.
C39_ToolReturnsScriptResult ==
    (/\ tcall.step = "returned"
     /\ tcall.name = "run_architectural_dialogue"
     /\ tcall.outcome = "completed")
        => tcall.parsed /\ tcall.result.success

(***************************************************************************)
(* assess_workspace_state (orchestrator_tools.py), the tool-level assessor, *)
(* next to DynamicOrchestrator.assess_project_state on the same snapshot.  *)
(* Both resolve the project below Path("workspaces").  A snapshot has two  *)
(* facts more than the trees above:                                        *)
(*   lower_audits  number of logs/audit_<timestamp>.md files (the name     *)
(*                 the tool globs for; no agent writes it)                 *)
(*   ignore_case   the file system matches glob patterns without regard    *)
(*                 to case (Windows) or with it (POSIX)                    *)
(***************************************************************************)
\* the extensions matched by the tool's five code_dir.glob patterns
ToolCodeGlobExts == {"py", "js", "ts", "tsx", "jsx"}

\* the value of each ProjectPhase member
PhaseValue ==
    [UNINITIALIZED |-> "uninitialized",
     ARCHITECTURAL_DIALOGUE |-> "architectural_dialogue",
     DOCUMENTATION_SYNTHESIS |-> "documentation_synthesis",
     IMPLEMENTATION |-> "implementation",
     AUDIT |-> "audit",
     COMPLETE |-> "complete",
     FAILED |-> "failed"]

\* the facts the tool reads from the tree, before the phase is inferred
ToolFacts(t) ==
    [DefaultToolState EXCEPT
        !.has_requirements = t.requirements,
        !.has_conversation =
            "conversation" \in t.dirs /\ Len(t.conversation) > 0,
        !.conversation_consensus =
            /\ "conversation" \in t.dirs /\ Len(t.conversation) > 0
            /\ "CONSENSUS" \in LatestByMtime(t.conversation).markers
            /\ "AGREED" \in LatestByMtime(t.conversation).markers,
        !.has_architecture =
            "architecture" \in t.dirs /\ t.architecture_doc,
        !.has_constraints =
            "architecture" \in t.dirs /\ t.constraints_doc,
        !.has_code =
            "code" \in t.dirs /\ (t.code_files \cap ToolCodeGlobExts) # {},
        \* logs_dir.glob("implementation_*.md")
        !.has_implementation_log =
            /\ "logs" \in t.dirs
            /\ \/ t.impl_logs > 0
               \/ t.ignore_case /\ t.implementation_log,
        \* logs_dir.glob("audit_*.md")
        !.has_audit_log =
            /\ "logs" \in t.dirs
            /\ \/ t.lower_audits > 0
               \/ t.ignore_case /\ Len(t.audit_logs) > 0]

\* the if / elif chain at the end of assess_workspace_state
ToolPhase(r) ==
    IF ~r.has_requirements THEN "uninitialized"
    ELSE IF ~r.has_conversation \/ ~r.conversation_consensus
    THEN "architectural_dialogue"
    ELSE IF ~r.has_architecture \/ ~r.has_constraints
    THEN "documentation_synthesis"
    ELSE IF ~r.has_code THEN "implementation"
    ELSE IF ~r.has_audit_log THEN "audit"
    ELSE "complete"

assess_workspace_state(t) ==
    IF "workspace" \notin t.dirs THEN DefaultToolState
    ELSE LET result == ToolFacts(t)
         IN  [result EXCEPT !.current_phase = ToolPhase(result)]

\* the snapshots both assessors are run on: any of the files either of
\* them looks for, in the directories they need
SnapshotCodeExts == {"tsx", "jsx", "html"}

Snapshots ==
    {LET t == Tree(FALSE, req, NamedTranscripts(conv), docs[1], docs[2],
                   code, impl_log, audits)
     IN  [dirs |-> t.dirs \cup (IF lower > 0 THEN {"workspace", "logs"}
                                ELSE {}),
          requirements |-> t.requirements,
          conversation |-> t.conversation,
          architecture_doc |-> t.architecture_doc,
          constraints_doc |-> t.constraints_doc,
          code_files |-> t.code_files,
          implementation_log |-> t.implementation_log,
          impl_logs |-> t.impl_logs,
          audit_logs |-> t.audit_logs,
          orch_logs |-> t.orch_logs,
          lower_audits |-> lower,
          ignore_case |-> ic] :
        req \in BOOLEAN,
        conv \in {<<>>, <<[mtime |-> 0, markers |-> {"CONSENSUS"}]>>,
                  <<[mtime |-> 0, markers |-> ConsensusMarkers]>>},
        docs \in {<<FALSE, FALSE>>, <<TRUE, FALSE>>, <<TRUE, TRUE>>},
        code \in SUBSET SnapshotCodeExts,
        impl_log \in BOOLEAN,
        audits \in {<<>>, <<[mtime |-> 0, markers |-> {"PASS"}]>>,
                    <<[mtime |-> 0, markers |-> {"FAIL"}]>>},
        lower \in 0..1,
        ic \in BOOLEAN}

InitCompare ==
    /\ fs \in Snapshots
    /\ assessed = NotAssessed
    /\ pstate = DefaultState
    /\ pphase = "unset"
    /\ paction = NoAction
    /\ perm_ws = <<>>
    /\ perm_log = <<>>
    /\ OrchestratorInit
    /\ dlg = NoDialogue
    /\ tcall = NoToolCall
    /\ api = NoApiCall
    /\ tstate = ToolNotAssessed

\* state = assess_workspace_state(project_name)
AssessWorkspaceState ==
    /\ tstate = ToolNotAssessed
    /\ tstate' = assess_workspace_state(fs)
    /\ UNCHANGED <<api, tcall, dlg, assessed, fs, phase_vars, perm_vars, orch_vars>>

NextCompare == AssessProjectState \/ AssessWorkspaceState

SpecCompare == InitCompare /\ [][NextCompare]_vars

\* an audit file of either name is in logs/
AuditArtifact == fs.audit_logs # <<>> \/ fs.lower_audits > 0

\* both assessors find requirements, consensus, both documents and code
EarlierStagesComplete ==
    /\ assessed.has_requirements /\ tstate.has_requirements
    /\ assessed.dialogue_consensus /\ tstate.conversation_consensus
    /\ assessed.has_architecture_doc /\ tstate.has_architecture
    /\ assessed.has_constraints_doc /\ tstate.has_constraints
    /\ assessed.has_code /\ tstate.has_code

\* C40: on one snapshot the two assessors report the same phase name when
\* there is no audit artifact; with an audit artifact and all earlier stages
\* complete the tool reports "complete" whatever the audit says, and the
\* DynamicOrchestrator reports FAILED for an audit that did not pass.
C40_AssessorsAgree ==
    (assessed # NotAssessed /\ tstate # ToolNotAssessed) =>
        /\ ~AuditArtifact
              => tstate.current_phase = PhaseValue[assessed.current_phase]
        /\ (AuditArtifact /\ EarlierStagesComplete)
              => /\ tstate.current_phase = "complete"
                 /\ assessed.audit_passed = "False"
                       => assessed.current_phase = "FAILED"

====
